---------------------------- MODULE Spec2Model ----------------------------
(***************************************************************************)
(* Model of scripts/scrape_mayrand_onsale.mjs (the current script, lines   *)
(* 521-1891): the listing traversal scrapeListing with its per-page retry  *)
(* loop and pagination transitions, the aggregation / de-duplication of    *)
(* records, and main with its query fallback and publish guard.            *)
(*                                                                         *)
(* Conventions.                                                            *)
(*  - A JavaScript string that may be null is a TLA+ string; null and the  *)
(*    empty string are both "" (every use in the code is a truthiness      *)
(*    test: `if (item.sku)`, `a || b`).                                    *)
(*  - A scraped text that is parsed character by character is a tuple of   *)
(*    one-character strings; <<>> is null / the empty text.                *)
(*  - A number that may be null is <<>> (null) or <<m, e>>, the decimal    *)
(*    m / 10^e with no trailing zero in the fraction.                      *)
(*  - A page number that may be null is a natural number or nullN.         *)
(*  - An object that may be null is <<>> (null) or <<object>>.             *)
(***************************************************************************)
EXTENDS Integers, Sequences, FiniteSets, TLC

null == ""
nullN == 0 - 1

(***************************************************************************)
(* Program constants.                                                      *)
(***************************************************************************)
PAGE_RETRY_COUNT == 2
PAGE_MAX_LIMIT == 100
RESULT_WAIT_ATTEMPTS == 10
DETAIL_CONCURRENCY_LIMIT == 4
GOTO_PAGE_ATTEMPTS == 5
BASE_URL == "https://mayrand.ca/fr/page-recherche"
ORIGIN == "https://mayrand.ca"
queries == <<"onsale", "promo", "solde">>

(***************************************************************************)
(* Bounds of the model.                                                    *)
(***************************************************************************)
MaxShown == 3       \* largest page number the pagination controls display
MaxCards == 1       \* visible cards on one listing page
MaxSitePages == 2   \* pages of the site in the specifications of whole runs
MaxRuns == 2        \* consecutive runs of main
RunSitePages == 1   \* pages of the site in the runs of main
MaxFed == 3         \* records handed to the aggregation on its own
MaxPool == 5        \* records handed to the detail enrichment on its own
MaxCandidates == 3  \* candidate texts handed to parsePriceCandidates on its own
MaxScroll == 4      \* scroll steps a page may be away from its end
MaxGrowth == 2      \* scroll steps by which a page may grow at one scroll

(***************************************************************************)
(* Small arithmetic and sequence helpers.                                  *)
(***************************************************************************)
Max(a, b) == IF a >= b THEN a ELSE b

Range(s) == {s[i] : i \in 1..Len(s)}

RECURSIVE Pow10(_)
Pow10(n) == IF n = 0 THEN 1 ELSE 10 * Pow10(n - 1)

RECURSIVE SeqsUpTo(_, _)
SeqsUpTo(S, n) ==
  IF n = 0 THEN {<<>>}
  ELSE LET shorter == SeqsUpTo(S, n - 1)
       IN  shorter \cup {Append(s, x) : s \in {t \in shorter : Len(t) = n - 1}, x \in S}

(***************************************************************************)
(* parseNumber: strip whitespace and '$', turn ',' into '.', drop every    *)
(* character that is not a digit or '.', then Number.parseFloat, which     *)
(* reads the longest prefix  digits [ '.' digits ]  and is NaN (null here) *)
(* when that prefix holds no digit.                                        *)
(***************************************************************************)
Digits == {"0", "1", "2", "3", "4", "5", "6", "7", "8", "9"}

DigitVal(c) ==
  CASE c = "0" -> 0 [] c = "1" -> 1 [] c = "2" -> 2 [] c = "3" -> 3 [] c = "4" -> 4
    [] c = "5" -> 5 [] c = "6" -> 6 [] c = "7" -> 7 [] c = "8" -> 8 [] c = "9" -> 9

RECURSIVE Cleaned(_)
Cleaned(t) ==
  IF t = <<>> THEN <<>>
  ELSE LET c == IF Head(t) = "," THEN "." ELSE Head(t)
       IN  IF c \in Digits \cup {"."} THEN <<c>> \o Cleaned(Tail(t)) ELSE Cleaned(Tail(t))

RECURSIVE LeadingDigits(_)
LeadingDigits(t) ==
  IF t # <<>> /\ Head(t) \in Digits THEN <<Head(t)>> \o LeadingDigits(Tail(t)) ELSE <<>>

RECURSIVE DigitsValue(_)
DigitsValue(ds) ==
  IF ds = <<>> THEN 0 ELSE 10 * DigitsValue(SubSeq(ds, 1, Len(ds) - 1)) + DigitVal(ds[Len(ds)])

RECURSIVE Normalize(_, _)
Normalize(m, e) == IF e > 0 /\ m % 10 = 0 THEN Normalize(m \div 10, e - 1) ELSE <<m, e>>

parseFloat(t) ==
  LET int  == LeadingDigits(t)
      rest == SubSeq(t, Len(int) + 1, Len(t))
      frac == IF rest # <<>> /\ Head(rest) = "." THEN LeadingDigits(Tail(rest)) ELSE <<>>
  IN  IF int = <<>> /\ frac = <<>> THEN <<>>
      ELSE Normalize(DigitsValue(int \o frac), Len(frac))

parseNumber(value) ==
  IF value = <<>> THEN <<>>
  ELSE LET cleaned == Cleaned(value)
       IN  IF cleaned = <<>> THEN <<>> ELSE parseFloat(cleaned)

NumLess(a, b) == a[1] * Pow10(b[2]) < b[1] * Pow10(a[2])

(***************************************************************************)
(* parsePriceCandidates: parse every candidate, sort ascending, sale is    *)
(* the first and regular the last when more than one value was parsed.     *)
(***************************************************************************)
RECURSIVE ParsedAll(_)
ParsedAll(values) ==
  IF values = <<>> THEN <<>>
  ELSE LET p == parseNumber(Head(values))
       IN  IF p = <<>> THEN ParsedAll(Tail(values)) ELSE <<p>> \o ParsedAll(Tail(values))

MinOf(prices) == CHOOSE p \in Range(prices) : \A q \in Range(prices) : ~NumLess(q, p)
MaxOf(prices) == CHOOSE p \in Range(prices) : \A q \in Range(prices) : ~NumLess(p, q)

parsePriceCandidates(values) ==
  LET prices == ParsedAll(values)
  IN  IF prices = <<>> THEN [sale |-> <<>>, regular |-> <<>>]
      ELSE [sale |-> MinOf(prices),
            regular |-> IF Len(prices) > 1 THEN MaxOf(prices) ELSE <<>>]

\* Variant: the pair is returned as it came.
KeepPair(p) == p

normalizePricePair(p) ==
  IF p.regular = <<>> /\ p.sale # <<>> THEN [sale |-> <<>>, regular |-> p.sale]
  ELSE IF p.sale # <<>> /\ p.regular # <<>> /\ p.sale = p.regular
       THEN [sale |-> <<>>, regular |-> p.regular]
       ELSE p

(***************************************************************************)
(* normalizeWhitespace and parseUnitPriceText on texts given character by  *)
(* character.  The regular expression of parseUnitPriceText is searched    *)
(* from every position of the normalized text, leftmost first:             *)
(*   ($|EUR)? \s* digits ([.,] digits)? \s* ($|EUR)? \s* (/ | par) \s* label  *)
(* with the flag i.  Each of its quantifiers has one way to match only,    *)
(* since what follows a run of digits or of spaces is neither a digit nor  *)
(* a space.  The texts of the model hold no euro sign.                     *)
(***************************************************************************)
Whitespace == {" ", "\n"}
Currency == {"$"}

RECURSIVE SkipWhitespace(_, _)
SkipWhitespace(t, i) ==
  IF i <= Len(t) /\ t[i] \in Whitespace THEN SkipWhitespace(t, i + 1) ELSE i

\* .replace(/\s+/g, ' ')
RECURSIVE Collapse(_)
Collapse(t) ==
  IF t = <<>> THEN <<>>
  ELSE IF Head(t) \in Whitespace
       THEN <<" ">> \o Collapse(SubSeq(t, SkipWhitespace(t, 1), Len(t)))
       ELSE <<Head(t)>> \o Collapse(Tail(t))

\* .trim()
RECURSIVE Trim(_)
Trim(t) ==
  IF t = <<>> THEN <<>>
  ELSE IF Head(t) \in Whitespace THEN Trim(Tail(t))
  ELSE IF t[Len(t)] \in Whitespace THEN Trim(SubSeq(t, 1, Len(t) - 1))
  ELSE t

normalizeWhitespace(value) == Trim(Collapse(value))

SkipCurrency(t, i) == IF i <= Len(t) /\ t[i] \in Currency THEN i + 1 ELSE i

\* Variant: the expression without the flag i.
SameCase(c) == c

\* The letters of the model's texts, lowered as the flag i compares them.
LowerCase(c) ==
  CASE c = "P" -> "p" [] c = "A" -> "a" [] c = "R" -> "r" [] c = "E" -> "e" [] OTHER -> c

\* The position after the separator (?:\/|par) read at position i of t, or 0.
AfterSeparator(t, i) ==
  IF i <= Len(t) /\ t[i] = "/" THEN i + 1
  ELSE IF i + 2 <= Len(t)
          /\ <<LowerCase(t[i]), LowerCase(t[i + 1]), LowerCase(t[i + 2])>> = <<"p", "a", "r">>
       THEN i + 3
       ELSE 0

\* The match of the expression that starts at position s of t: <<>> when
\* there is none, else <<[number, label]>> with the two captured groups.
MatchAt(t, s) ==
  LET n     == Len(t)
      i2    == SkipWhitespace(t, SkipCurrency(t, s))
      int   == LeadingDigits(SubSeq(t, i2, n))
      i3    == i2 + Len(int)
      frac  == IF i3 <= n /\ t[i3] \in {".", ","}
               THEN LeadingDigits(SubSeq(t, i3 + 1, n)) ELSE <<>>
      i4    == IF frac = <<>> THEN i3 ELSE i3 + 1 + Len(frac)
      i7    == SkipWhitespace(t, SkipCurrency(t, SkipWhitespace(t, i4)))
      i8    == AfterSeparator(t, i7)
      i9    == SkipWhitespace(t, i8)
  IN  IF int = <<>> \/ i8 = 0 \/ i9 > n THEN <<>>
      ELSE <<[number |-> SubSeq(t, i2, i4 - 1), label |-> SubSeq(t, i9, n)]>>

NoUnitPrice == [unitPrice |-> <<>>, unitLabel |-> <<>>]

parseUnitPriceText(value) ==
  IF value = <<>> THEN NoUnitPrice
  ELSE LET normalized == normalizeWhitespace(value)
           starts == {s \in 1..Len(normalized) : MatchAt(normalized, s) # <<>>}
       IN  IF starts = {} THEN NoUnitPrice
           ELSE LET match == MatchAt(normalized, CHOOSE s \in starts : \A u \in starts : s <= u)[1]
                IN  [unitPrice |-> parseNumber(match.number),
                     unitLabel |-> normalizeWhitespace(match.label)]

(***************************************************************************)
(* Addresses.  A card link is absolute, root-relative or not a URL at all  *)
(* (new URL throws and resolveUrl returns null).                           *)
(***************************************************************************)
AbsoluteLinks == {"https://mayrand.ca/fr/nos-produits/pain-123"}
RootRelativeLinks == {"/fr/nos-produits/pain-123", "/fr/nos-produits/lait-456"}
InvalidLinks == {"http://"}

resolveUrl(maybeUrl, baseUrl) ==
  IF maybeUrl = null THEN null
  ELSE IF maybeUrl \in InvalidLinks THEN null
  ELSE IF maybeUrl \in AbsoluteLinks THEN maybeUrl
  ELSE ORIGIN \o maybeUrl

\* encodeURIComponent(anchor.replace(/\s+/g, '-').slice(0, 80)) on the names and
\* skus of the model (all shorter than 80 characters).
EncodeAnchor(anchor) ==
  CASE anchor = "Pain blanc" -> "Pain-blanc"
    [] anchor = "Lait 2%" -> "Lait-2%25"
    [] OTHER -> anchor

\* Variant: no fallback address.
NoFallbackUrl(sku, name, baseUrl) == null

buildFallbackUrl(sku, name, baseUrl) ==
  LET anchor == IF sku # null THEN sku ELSE name
  IN  IF anchor = null THEN baseUrl ELSE baseUrl \o "#" \o EncodeAnchor(anchor)

BaseUrlString(q) == IF q # null THEN BASE_URL \o "?search=" \o q ELSE BASE_URL

(***************************************************************************)
(* Identity key.  String(number) of JavaScript for the composite key.      *)
(***************************************************************************)
DigitStr(d) ==
  CASE d = 0 -> "0" [] d = 1 -> "1" [] d = 2 -> "2" [] d = 3 -> "3" [] d = 4 -> "4"
    [] d = 5 -> "5" [] d = 6 -> "6" [] d = 7 -> "7" [] d = 8 -> "8" [] d = 9 -> "9"

RECURSIVE NatStr(_)
NatStr(n) == IF n < 10 THEN DigitStr(n) ELSE NatStr(n \div 10) \o DigitStr(n % 10)

RECURSIVE FracStr(_, _)
FracStr(n, width) == IF width = 0 THEN "" ELSE FracStr(n \div 10, width - 1) \o DigitStr(n % 10)

NumStr(x) ==
  IF x = <<>> THEN "null"
  ELSE IF x[2] = 0 THEN NatStr(x[1])
  ELSE NatStr(x[1] \div Pow10(x[2])) \o "." \o FracStr(x[1] % Pow10(x[2]), x[2])

buildFallbackKey(item) ==
  IF item.name = null THEN null
  ELSE item.name \o "__" \o NumStr(item.price_sale) \o "__" \o item.unit_label

uniqueKeyForItem(item) ==
  IF item.sku # null THEN item.sku
  ELSE IF item.url # null THEN item.url
  ELSE buildFallbackKey(item)

(***************************************************************************)
(* Raw item fragments the listing can show (one per visible card), and     *)
(* their normalisation into records (the map of scrapeListing).            *)
(***************************************************************************)
FragA ==
  [name |-> "Pain blanc", sku |-> "123", link |-> "/fr/nos-produits/pain-123",
   priceSaleText |-> <<"2", ",", "4", "9", " ", "$">>,
   priceRegularText |-> <<"3", ",", "9", "9", " ", "$">>,
   priceCandidates |-> <<>>, unitLabel |-> "un"]

FragA2 ==
  [name |-> "Pain blanc tranche", sku |-> "123", link |-> "/fr/nos-produits/lait-456",
   priceSaleText |-> <<>>, priceRegularText |-> <<>>,
   priceCandidates |-> << <<"2", ".", "5", "0">>, <<"2", ",", "5">> >>, unitLabel |-> null]

FragB ==
  [name |-> "Pain", sku |-> null, link |-> "https://mayrand.ca/fr/nos-produits/pain-123",
   priceSaleText |-> <<"1", "$">>, priceRegularText |-> <<>>,
   priceCandidates |-> <<>>, unitLabel |-> "un"]

FragB2 ==
  [name |-> "Pain blanc", sku |-> null, link |-> "/fr/nos-produits/pain-123",
   priceSaleText |-> <<>>, priceRegularText |-> <<"4", "$">>,
   priceCandidates |-> <<>>, unitLabel |-> null]

FragD ==
  [name |-> "Lait 2%", sku |-> null, link |-> "http://",
   priceSaleText |-> <<>>, priceRegularText |-> <<>>,
   priceCandidates |-> << <<"5", ",", "2", "9">>, <<"x">>, <<"6", ".", "1">> >>,
   unitLabel |-> "2L"]

FragE ==
  [name |-> null, sku |-> null, link |-> null,
   priceSaleText |-> <<>>, priceRegularText |-> <<>>,
   priceCandidates |-> <<>>, unitLabel |-> null]

\* The name of FragD without a link, at another price.
FragD2 ==
  [name |-> "Lait 2%", sku |-> null, link |-> null,
   priceSaleText |-> <<"3", "$">>, priceRegularText |-> <<>>,
   priceCandidates |-> <<>>, unitLabel |-> "1L"]

\* A card without name, sku and link that shows a price.
FragE2 ==
  [name |-> null, sku |-> null, link |-> null,
   priceSaleText |-> <<>>, priceRegularText |-> <<"4", "$">>,
   priceCandidates |-> <<>>, unitLabel |-> "kg"]

Fragments == {FragA, FragA2, FragB, FragB2, FragD, FragD2, FragE, FragE2}

NormalizeItem(item, q) ==
  LET parsedSale == parseNumber(item.priceSaleText)
      parsedRegular == parseNumber(item.priceRegularText)
      pair == IF parsedSale # <<>> \/ parsedRegular # <<>>
              THEN [sale |-> parsedSale, regular |-> parsedRegular]
              ELSE parsePriceCandidates(item.priceCandidates)
      normalizedPrices == normalizePricePair(pair)
      baseUrlString == BaseUrlString(q)
      resolvedLink == resolveUrl(item.link, baseUrlString)
  IN  [query |-> q,
       name |-> item.name,
       sku |-> item.sku,
       price_sale |-> normalizedPrices.sale,
       price_regular |-> normalizedPrices.regular,
       unit_label |-> item.unitLabel,
       url |-> IF resolvedLink # null THEN resolvedLink
               ELSE buildFallbackUrl(item.sku, item.name, baseUrlString)]

\* NormalizeItem over the fragments and queries of the model, computed once.
NormalizedItems ==
  {<<item, q, NormalizeItem(item, q)>> : item \in Fragments, q \in Range(queries)}

Normalized(item, q) == (CHOOSE t \in NormalizedItems : t[1] = item /\ t[2] = q)[3]

PageItems(results, q) == [i \in 1..Len(results) |-> Normalized(results[i], q)]

(***************************************************************************)
(* The aggregation loop of scrapeListing (pageItems.forEach): acc is       *)
(* [keys: the keys of the Map uniqueItems, all: allItems].                 *)
(***************************************************************************)
\* Variant: the url is not used as a key.
ListingKeyNoUrl(item) ==
  IF item.sku # null THEN item.sku
  ELSE IF item.name # null THEN buildFallbackKey(item)
  ELSE null

\* Variant: without sku the composite key of a named record is preferred to
\* its url.
ListingKeyNameFirst(item) ==
  IF item.sku # null THEN item.sku
  ELSE IF item.name # null THEN buildFallbackKey(item)
  ELSE item.url

ListingKey(item) ==
  IF item.sku # null THEN item.sku
  ELSE IF item.url # null THEN item.url
  ELSE IF item.name # null THEN buildFallbackKey(item)
  ELSE null

\* Variant: every record is pushed, whatever its key.
AggregateAlways(acc, item) ==
  [keys |-> acc.keys \cup {ListingKey(item)}, all |-> Append(acc.all, item)]

AggregateOne(acc, item) ==
  LET key == ListingKey(item)
  IN  IF key # null
      THEN IF key \notin acc.keys
           THEN [keys |-> acc.keys \cup {key}, all |-> Append(acc.all, item)]
           ELSE acc
      ELSE [keys |-> acc.keys, all |-> Append(acc.all, item)]

RECURSIVE Aggregate(_, _)
Aggregate(acc, pageItems) ==
  IF pageItems = <<>> THEN acc
  ELSE Aggregate(AggregateOne(acc, Head(pageItems)), Tail(pageItems))

(***************************************************************************)
(* The final pass of main (candidateItems.forEach with uniqueKeyForItem).  *)
(***************************************************************************)
FinalOne(acc, item) ==
  LET key == uniqueKeyForItem(item)
  IN  IF key # null
      THEN IF key \in acc.keys THEN acc
           ELSE [keys |-> acc.keys \cup {key}, all |-> Append(acc.all, item)]
      ELSE [keys |-> acc.keys, all |-> Append(acc.all, item)]

RECURSIVE FinalPass(_, _)
FinalPass(acc, candidateItems) ==
  IF candidateItems = <<>> THEN acc
  ELSE FinalPass(FinalOne(acc, Head(candidateItems)), Tail(candidateItems))

FinalItems(candidateItems) == FinalPass([keys |-> {}, all |-> <<>>], candidateItems).all

(***************************************************************************)
(* State.                                                                  *)
(*   env          what the rendering surface may do in this specification: *)
(*                siteMax (the largest page number the site ever makes     *)
(*                active), frags (the fragments its cards may hold) and    *)
(*                urls (the addresses the session may be at), and what a   *)
(*                page may display: buttons and links (the page numbers of *)
(*                its pagination buttons and links), jumps and hrefs (the  *)
(*                page numbers and addresses its next-page control names)  *)
(*   url          page.url() of the listing session                        *)
(*   pc           position in scrapeListing                                *)
(*   query ... paginationStatus   the locals of scrapeListing              *)
(*   waitAttempt  the poll of waitForResultsWithRetry in progress (0 when    *)
(*                the poller is not running)                                *)
(*   nav          the running goToPage call: who called it, its            *)
(*                targetPage and its click attempt                         *)
(*   visited, visitedUrls, gDerived, gLast, gEmpty, gTransFailed, gStall,  *)
(*   gTrans       history of the traversal, read only by the properties:   *)
(*                the pages and addresses extracted so far; the maximum    *)
(*                page every extracted page displayed (Mixed when they     *)
(*                differ); the number of records of the page processed     *)
(*                last (nullN before the first page);                      *)
(*                whether two consecutive pages were empty or a            *)
(*                page was never extracted; whether a transition failed    *)
(*                or threw; whether a transition ended on an address       *)
(*                already extracted; the active page read last in the      *)
(*                transition of this iteration (<<>> when none was made)   *)
(*   mpc          position in main ("idle" between two runs)               *)
(*   runs         runs of the script started so far                        *)
(*   qi ... enrichedItems   the locals of main                             *)
(*   files        metadata.json, data.json and data.csv in OUTPUT_DIR      *)
(*   exitCode     process.exitCode of the last run                         *)
(*   gStart, gPublished   history: the files when the run started, and     *)
(*                whether a run has published a non-empty dataset          *)
(*   gWrote       history: the files of OUTPUT_DIR the run has written      *)
(*   gInputs      history: the records handed to the aggregation (kept     *)
(*                only where the aggregation is exercised on its own)      *)
(*   gRan         history: the queries whose traversal has returned in     *)
(*                this run, in order, each with its number of records      *)
(*   gKeys        the keys the two derivations give the records of gInputs  *)
(*                (only where the derivations are exercised on their own)   *)
(*   gPolled, waitReturn   the DOM states a call of waitForResultsWithRetry *)
(*                has read, in order, and the state it returned (<<>>      *)
(*                while it runs; only where the poller is exercised on its *)
(*                own)                                                     *)
(*   toScroll     scrollForLazyLoad: document.body.scrollHeight less the   *)
(*                total scrolled so far, in scroll steps (0 when the       *)
(*                scroll is not running)                                   *)
(*   index, poolResults, workers   enrichItemsWithDetails: the shared      *)
(*                index, the array results (<<>> for a slot not written    *)
(*                yet) and, for each worker, the await it is suspended at, *)
(*                its local current and its local page (0 for none)        *)
(*   sessions     the detail pages that are open, each with the worker     *)
(*                that opened it                                           *)
(*   gArgs, gOut  the arguments and the value of a call of one of the pure *)
(*                functions (only where they are exercised on their own)   *)
(*   gTook, gOutOfOrder, gThrew   history of the pool: how many times each *)
(*                index was taken, whether a scrape has completed while    *)
(*                the slot of an earlier item was still to be written, and *)
(*                the positions of the items whose detail scrape threw     *)
(***************************************************************************)
VARIABLES env, url, pc, query, currentPage, maxPage, emptyPageStreak, pageCount,
          stoppedReason, allItems, uniqueItems, attempt, waitAttempt, extracted,
          lastError, paginationStatus, nav,
          visited, visitedUrls, gDerived, gLast, gEmpty, gTransFailed, gStall, gTrans,
          mpc, runs, qi, result, queryUsed, finalItems, enrichedItems, files, exitCode,
          gStart, gPublished, gWrote, gInputs, gRan, gKeys,
          gPolled, waitReturn, toScroll,
          index, poolResults, workers, sessions, gTook, gOutOfOrder, gThrew,
          gArgs, gOut

locals == <<query, currentPage, maxPage, emptyPageStreak, pageCount, stoppedReason,
            allItems, uniqueItems, attempt, waitAttempt, extracted, lastError,
            paginationStatus, nav>>
history == <<visited, visitedUrls, gDerived, gLast, gEmpty, gTransFailed, gStall, gTrans>>
mainLocals == <<mpc, runs, qi, result, queryUsed, finalItems, enrichedItems>>
pollvars == <<gPolled, waitReturn, toScroll>>
poolvars == <<index, poolResults, workers, sessions, gTook, gOutOfOrder, gThrew>>
purevars == <<gArgs, gOut>>
xvars == <<pollvars, poolvars, purevars>>
mvars == <<mainLocals, files, exitCode, gStart, gPublished, gWrote, gInputs, gRan, gKeys,
           xvars>>
tvars == <<env, url, pc, locals, history>>
vars == <<tvars, mvars>>

Mixed == 0 - 2
NoNav == [via |-> "none", target |-> 0, attempt |-> 0]

StoppedReasons ==
  {"max-page-reached", "next-disabled", "no-next-page", "pagination-stalled",
   "empty-pages-streak", "page-limit-reached", "completed"}

(***************************************************************************)
(* What scrapePage can return on page p: one fragment per visible card     *)
(* (results.length = visibleCardCount), the page numbers of the pagination *)
(* buttons and of the pagination links, and the next-page control.         *)
(***************************************************************************)
NextControls(e, p) ==
  {[disabled |-> TRUE, pageNumber |-> nullN, href |-> null]}
    \cup {[disabled |-> FALSE, pageNumber |-> p + k, href |-> null] : k \in e.jumps}
    \cup {[disabled |-> FALSE, pageNumber |-> nullN, href |-> h] : h \in e.hrefs}

ButtonSets == {1..n : n \in 0..MaxShown}
LinkSets == {{}, {MaxShown}}

Extractions(e, p) ==
  [results : SeqsUpTo(e.frags, MaxCards),
   paginationButtons : e.buttons,
   paginationLinks : e.links,
   nextPage : NextControls(e, p)]

SetMax(S) == CHOOSE x \in S : \A y \in S : y <= x

getMaxPageFromButtons(paginationButtons) ==
  IF paginationButtons = {} THEN nullN ELSE SetMax(paginationButtons)

getPaginationInfo(paginationLinks) ==
  IF paginationLinks = {} THEN nullN ELSE SetMax(paginationLinks)

DerivedMaxPage(ex) ==
  IF getMaxPageFromButtons(ex.paginationButtons) # nullN
  THEN getMaxPageFromButtons(ex.paginationButtons)
  ELSE getPaginationInfo(ex.paginationLinks)

\* What getActivePage can read after a transition towards page t.
ActiveAfter(t) == {nullN, currentPage} \cup (IF t <= env.siteMax THEN {t} ELSE {})

(***************************************************************************)
(* scrapeListing: entry.                                                   *)
(***************************************************************************)
EnterListing(q) ==
  /\ pc' = "wait"
  /\ waitAttempt' = 1
  /\ query' = q
  /\ url' = "U1"
  /\ currentPage' = 1
  /\ maxPage' = nullN
  /\ emptyPageStreak' = 0
  /\ pageCount' = 0
  /\ stoppedReason' = null
  /\ allItems' = <<>>
  /\ uniqueItems' = {}
  /\ attempt' = 0
  /\ extracted' = <<>>
  /\ lastError' = FALSE
  /\ paginationStatus' = <<>>
  /\ nav' = NoNav
  /\ visited' = <<>>
  /\ visitedUrls' = {}
  /\ gDerived' = nullN
  /\ gLast' = nullN
  /\ gEmpty' = FALSE
  /\ gTransFailed' = FALSE
  /\ gStall' = FALSE
  /\ gTrans' = <<>>

Throw ==
  /\ pc' = "threw"
  /\ UNCHANGED <<url, locals, visited, visitedUrls, gDerived, gLast, gEmpty, gStall, gTrans>>

(***************************************************************************)
(* One attempt of the per-page retry loop: the try block ends with an      *)
(* extraction (scrapePage after the poller) or throws into the catch.      *)
(***************************************************************************)
\* Variant: the retry loop is left at the first extraction, empty or not.
BreaksOnAnyExtraction(ex, att) == TRUE

RetryBreaks(ex, att) == Len(ex.results) > 0 \/ att = PAGE_RETRY_COUNT

\* Variant: the retry counter is not incremented.
SameAttempt(att) == att

\* attempt += 1 of the retry loop.
NextAttempt(att) == att + 1

\* Variant: an attempt that does not break the loop leaves scrapeListing with
\* an exception instead of being followed by the next attempt.
AttemptPropagates(broke) ==
  /\ attempt' = attempt
  /\ waitAttempt' = 0
  /\ pc' = IF broke THEN "process" ELSE "threw"

AfterAttempt(broke) ==
  IF broke \/ NextAttempt(attempt) > PAGE_RETRY_COUNT
  THEN /\ attempt' = IF broke THEN attempt ELSE NextAttempt(attempt)
       /\ waitAttempt' = 0
       /\ pc' = "process"
  ELSE /\ attempt' = NextAttempt(attempt)
       /\ waitAttempt' = 1
       /\ pc' = "wait"

(***************************************************************************)
(* waitForResultsWithRetry, called in the try block before the extraction: *)
(* one step per iteration of its loop.  The step reads the DOM state and   *)
(* returns when it is ready; otherwise it sleeps and polls again; after    *)
(* RESULT_WAIT_ATTEMPTS polls the loop ends and the function returns the   *)
(* state it reads last.  An exception (of page.goto, of the waits before   *)
(* the poller or of the poll itself) goes to the catch of the retry loop.  *)
(***************************************************************************)
DomStates == [resultsCountText : BOOLEAN, cardsCount : 0..MaxCards, loaderVisible : BOOLEAN]

\* A variant that declares a page ready only when it shows a card.
ResultsReadyCardsOnly(st) == st.cardsCount > 0

ResultsReady(state) ==
  state.resultsCountText \/ state.cardsCount > 0 \/ ~state.loaderVisible

\* attempt += 1 of the polling loop.
NextPoll(n) == n + 1

WaitForResults ==
  /\ UNCHANGED mvars
  /\ pc = "wait"
  /\ waitAttempt <= RESULT_WAIT_ATTEMPTS
  /\ \/ /\ lastError' = TRUE
        /\ AfterAttempt(FALSE)
     \/ /\ \E state \in env.dom :
             IF ResultsReady(state) \/ NextPoll(waitAttempt) > RESULT_WAIT_ATTEMPTS
             THEN pc' = "attempt" /\ waitAttempt' = 0
             ELSE pc' = "wait" /\ waitAttempt' = NextPoll(waitAttempt)
        /\ UNCHANGED <<attempt, lastError>>
  /\ UNCHANGED <<env, url, query, currentPage, maxPage, emptyPageStreak, pageCount,
                 stoppedReason, allItems, uniqueItems, extracted, paginationStatus,
                 nav, history>>

Attempt ==
  /\ UNCHANGED mvars
  /\ pc = "attempt"
  /\ \/ /\ lastError' = TRUE
        /\ extracted' = extracted
        /\ AfterAttempt(FALSE)
     \/ /\ extracted' \in [{1} -> Extractions(env, currentPage)]
        /\ lastError' = lastError
        /\ AfterAttempt(RetryBreaks(extracted'[1], attempt))
  /\ UNCHANGED <<env, url, query, currentPage, maxPage, emptyPageStreak, pageCount,
                 stoppedReason, allItems, uniqueItems, paginationStatus, nav, history>>

(***************************************************************************)
(* After the retry loop: the debug artifacts, the empty-page streak, the   *)
(* aggregation, the page count, the maximum page and the two stop tests.   *)
(***************************************************************************)
NewMaxPage(old, derived) ==
  IF derived # nullN THEN (IF old = nullN THEN derived ELSE Max(old, derived)) ELSE old

\* Variant: a page with records leaves the streak as it is.
StreakNeverReset(streak, ex) == IF Len(ex.results) = 0 THEN streak + 1 ELSE streak

NewStreak(streak, ex) == IF Len(ex.results) = 0 THEN streak + 1 ELSE 0

\* Variant: the maximum page is compared with > instead of >=.
StopPastMaxPage(streak, mp, page) ==
  IF streak >= 2 THEN "empty-pages-streak"
  ELSE IF mp # nullN /\ page > mp THEN "max-page-reached"
  ELSE null

StopAfterPage(streak, mp, page) ==
  IF streak >= 2 THEN "empty-pages-streak"
  ELSE IF mp # nullN /\ page >= mp THEN "max-page-reached"
  ELSE null

ProcessPage ==
  /\ UNCHANGED mvars
  /\ pc = "process"
  /\ IF extracted = <<>>
     THEN \/ /\ Throw
             /\ gTransFailed' = gTransFailed
          \/ /\ pc' = "exit"
             /\ gEmpty' = TRUE
             /\ UNCHANGED <<url, locals, visited, visitedUrls, gDerived, gLast, gTransFailed,
                            gStall, gTrans>>
     ELSE LET ex == extracted[1]
              pageItems == PageItems(ex.results, query)
              acc == Aggregate([keys |-> uniqueItems, all |-> allItems], pageItems)
              streak == NewStreak(emptyPageStreak, ex)
              mp == NewMaxPage(maxPage, DerivedMaxPage(ex))
              reason == StopAfterPage(streak, mp, currentPage)
          IN  \/ /\ Len(ex.results) = 0
                 /\ Throw
                 /\ gTransFailed' = gTransFailed
              \/ /\ emptyPageStreak' = streak
                 /\ allItems' = acc.all
                 /\ uniqueItems' = acc.keys
                 /\ pageCount' = pageCount + 1
                 /\ maxPage' = mp
                 /\ stoppedReason' = reason
                 /\ pc' = IF reason # null THEN "exit" ELSE "paginate"
                 /\ visited' = Append(visited, currentPage)
                 /\ visitedUrls' = visitedUrls \cup {url}
                 /\ gLast' = Len(ex.results)
                 /\ gDerived' = IF pageCount = 0 \/ gDerived = DerivedMaxPage(ex)
                                THEN DerivedMaxPage(ex) ELSE Mixed
                 /\ gEmpty' = (gEmpty \/ streak >= 2)
                 /\ gTrans' = <<>>
                 /\ UNCHANGED <<url, query, currentPage, attempt, waitAttempt, extracted, lastError,
                                paginationStatus, nav, gTransFailed, gStall>>
  /\ UNCHANGED env

(***************************************************************************)
(* goToPage.  Entry: when an enabled button for the target exists the      *)
(* click loop starts, otherwise the page is reached by URL.                *)
(***************************************************************************)
AfterCall(via) == IF via = "next" THEN "fallback" ELSE "verify"

Landed(via, after, u) ==
  /\ paginationStatus' = <<[afterActive |-> after]>>
  /\ url' = u
  /\ gTrans' = <<after>>
  /\ nav' = NoNav
  /\ pc' = AfterCall(via)

EnterGoToPage(via, target) ==
  \/ /\ Throw
     /\ gTransFailed' = TRUE
  \/ /\ nav' = [via |-> via, target |-> target, attempt |-> 1]
     /\ pc' = "click"
     /\ paginationStatus' = <<>>
     /\ UNCHANGED <<url, gTrans, gTransFailed>>
  \/ \E after \in ActiveAfter(target), u \in env.urls :
       /\ Landed(via, after, u)
       /\ gTransFailed' = gTransFailed

ClickSucceeds(after, pagerShows, target) == after = target \/ pagerShows

ClickAttempt ==
  /\ UNCHANGED mvars
  /\ pc = "click"
  /\ \/ /\ Throw
        /\ gTransFailed' = TRUE
     \/ \E after \in ActiveAfter(nav.target), pagerShows \in BOOLEAN, u \in env.urls :
          IF ClickSucceeds(after, pagerShows, nav.target)
          THEN /\ Landed(nav.via, after, u)
               /\ gTransFailed' = gTransFailed
          ELSE /\ url' = u
               /\ gTrans' = <<after>>
               /\ gTransFailed' = gTransFailed
               /\ paginationStatus' = <<>>
               /\ IF nav.attempt < GOTO_PAGE_ATTEMPTS
                  THEN /\ nav' = [nav EXCEPT !.attempt = nav.attempt + 1]
                       /\ pc' = "click"
                  ELSE /\ nav' = NoNav
                       /\ pc' = AfterCall(nav.via)
  /\ UNCHANGED <<env, query, currentPage, maxPage, emptyPageStreak, pageCount,
                 stoppedReason, allItems, uniqueItems, attempt, waitAttempt, extracted,
                 lastError,
                 visited, visitedUrls, gDerived, gLast, gEmpty, gStall>>

(***************************************************************************)
(* goToNextPage, called when the extracted next-page control is present    *)
(* and not disabled.                                                       *)
(***************************************************************************)
GoToNextPage ==
  /\ UNCHANGED mvars
  /\ pc = "paginate"
  /\ LET nextPage == extracted[1].nextPage
     IN  IF nextPage.disabled
         THEN /\ pc' = "fallback"
              /\ paginationStatus' = <<>>
              /\ UNCHANGED <<url, nav, gTrans, gTransFailed>>
         ELSE IF nextPage.pageNumber # nullN
         THEN EnterGoToPage("next", nextPage.pageNumber)
         ELSE IF nextPage.href # null /\ resolveUrl(nextPage.href, BaseUrlString(query)) # null
         THEN \/ /\ Throw
                 /\ gTransFailed' = TRUE
              \/ \E after \in ActiveAfter(currentPage + 1), u \in env.urls :
                   /\ Landed("next", after, u)
                   /\ gTransFailed' = gTransFailed
         ELSE /\ pc' = "fallback"
              /\ paginationStatus' = <<>>
              /\ UNCHANGED <<url, nav, gTrans, gTransFailed>>
  /\ UNCHANGED <<env, query, currentPage, maxPage, emptyPageStreak, pageCount,
                 stoppedReason, allItems, uniqueItems, attempt, waitAttempt, extracted,
                 lastError,
                 visited, visitedUrls, gDerived, gLast, gEmpty, gStall>>

(***************************************************************************)
(* The direct transition to currentPage + 1 when no status was obtained    *)
(* and a maximum page above the current page is known.                     *)
(***************************************************************************)
\* Variant: the direct transition does not look at the status obtained so far.
DirectWhateverStatus(status, mp, page) == mp # nullN /\ page < mp

DirectAllowed(status, mp, page) == status = <<>> /\ mp # nullN /\ page < mp

GoToPageDirect ==
  /\ UNCHANGED mvars
  /\ pc = "fallback"
  /\ IF DirectAllowed(paginationStatus, maxPage, currentPage)
     THEN EnterGoToPage("direct", currentPage + 1)
     ELSE /\ pc' = "verify"
          /\ UNCHANGED <<url, paginationStatus, nav, gTrans, gTransFailed>>
  /\ UNCHANGED <<env, query, currentPage, maxPage, emptyPageStreak, pageCount,
                 stoppedReason, allItems, uniqueItems, attempt, waitAttempt, extracted,
                 lastError,
                 visited, visitedUrls, gDerived, gLast, gEmpty, gStall>>

(***************************************************************************)
(* The end of one iteration: the two failure tests, then currentPage       *)
(* advances and the while condition is tested again.                       *)
(***************************************************************************)
TransitionVerdict(status, nextPage, targetPage) ==
  IF status = <<>> THEN (IF nextPage.disabled THEN "next-disabled" ELSE "no-next-page")
  ELSE IF status[1].afterActive # targetPage THEN "no-next-page"
  ELSE null

\* Variant: the while condition admits one more page.
LoopContinuesPast(page) == page <= PAGE_MAX_LIMIT + 1

LoopContinues(page) == page <= PAGE_MAX_LIMIT

Verify ==
  /\ UNCHANGED mvars
  /\ pc = "verify"
  /\ LET targetPage == currentPage + 1
         verdict == TransitionVerdict(paginationStatus, extracted[1].nextPage, targetPage)
     IN  IF verdict # null
         THEN /\ stoppedReason' = verdict
              /\ pc' = "exit"
              /\ gTransFailed' = TRUE
              /\ UNCHANGED <<currentPage, attempt, waitAttempt, extracted, lastError, gTrans>>
         ELSE /\ currentPage' = targetPage
              /\ stoppedReason' = stoppedReason
              /\ gTransFailed' = gTransFailed
              /\ gTrans' = <<>>
              /\ IF LoopContinues(targetPage)
                 THEN /\ pc' = "wait"
                      /\ attempt' = 0
                      /\ waitAttempt' = 1
                      /\ extracted' = <<>>
                      /\ lastError' = FALSE
                 ELSE /\ pc' = "exit"
                      /\ UNCHANGED <<attempt, waitAttempt, extracted, lastError>>
  /\ gStall' = (gStall \/ (gTrans # <<>> /\ url \in visitedUrls))
  /\ UNCHANGED <<env, url, query, maxPage, emptyPageStreak, pageCount, allItems,
                 uniqueItems, paginationStatus, nav,
                 visited, visitedUrls, gDerived, gLast, gEmpty>>

(***************************************************************************)
(* After the loop: the default reason and the returned TraversalResult.    *)
(***************************************************************************)
\* Variant: no default reason after the loop.
KeepReason(reason, page) == reason

\* Variant: the default reason after the loop is always the page limit.
LimitReasonOnly(reason, page) ==
  IF reason # null THEN reason ELSE "page-limit-reached"

FinalReason(reason, page) ==
  IF reason # null THEN reason
  ELSE IF page > PAGE_MAX_LIMIT THEN "page-limit-reached" ELSE "completed"

Return ==
  /\ UNCHANGED mvars
  /\ pc = "exit"
  /\ stoppedReason' = FinalReason(stoppedReason, currentPage)
  /\ pc' = "returned"
  /\ UNCHANGED <<env, url, query, currentPage, maxPage, emptyPageStreak, pageCount,
                 allItems, uniqueItems, attempt, waitAttempt, extracted, lastError,
                 paginationStatus,
                 nav, history>>

TraversalResult ==
  [baseUrl |-> BaseUrlString(query), items |-> allItems, pageCount |-> pageCount,
   stoppedReason |-> stoppedReason]

(***************************************************************************)
(* The published files.  metadata.json is absent, not JSON, or an object   *)
(* whose count fields are finite numbers or missing (nullN); data.json is  *)
(* absent, a JSON value that is no array, or an array.                     *)
(***************************************************************************)
NoMeta == [kind |-> "absent", totalItems |-> nullN, total_items |-> nullN,
           product_count |-> nullN, pagesScraped |-> nullN]
NoData == [kind |-> "absent", items |-> <<>>]

MetaWritten(pages, total) ==
  [kind |-> "object", totalItems |-> total, total_items |-> nullN,
   product_count |-> nullN, pagesScraped |-> pages]

DataWritten(items) == [kind |-> "array", items |-> items]

\* Variant: only totalItems and product_count are read from the metadata.
ReadWithoutTotalItemsAlias(f) ==
  IF f.meta.kind = "object" /\ f.meta.totalItems # nullN THEN f.meta.totalItems
  ELSE IF f.meta.kind = "object" /\ f.meta.product_count # nullN THEN f.meta.product_count
  ELSE IF f.data.kind = "array" THEN Len(f.data.items)
  ELSE 0

readHistoricalCount(f) ==
  IF f.meta.kind = "object" /\ f.meta.totalItems # nullN THEN f.meta.totalItems
  ELSE IF f.meta.kind = "object" /\ f.meta.total_items # nullN THEN f.meta.total_items
  ELSE IF f.meta.kind = "object" /\ f.meta.product_count # nullN THEN f.meta.product_count
  ELSE IF f.data.kind = "array" THEN Len(f.data.items)
  ELSE 0

OldRecord == NormalizeItem(FragB2, queries[1])

InitialFiles ==
  {[meta |-> m, data |-> d, csv |-> d] :
     m \in {NoMeta,
            [NoMeta EXCEPT !.kind = "invalid"],
            [NoMeta EXCEPT !.kind = "object", !.product_count = 1],
            MetaWritten(1, 0),
            MetaWritten(1, 1)},
     d \in {NoData, [kind |-> "object", items |-> <<>>], DataWritten(<<>>),
            DataWritten(<<OldRecord>>)}}

(***************************************************************************)
(* Detail enrichment of one item: scrapeProductPage throws (<<>>), or      *)
(* returns the details of the product page.                                *)
(***************************************************************************)
extractSkuFromUrl(u) ==
  CASE u = ORIGIN \o "/fr/nos-produits/pain-123" -> "123"
    [] u = ORIGIN \o "/fr/nos-produits/lait-456" -> "456"
    [] OTHER -> null

Or(a, b) == IF a # null THEN a ELSE b
OrElse(a, b) == IF a # <<>> THEN a ELSE b

DetEmpty ==
  [h1Text |-> null, ogTitle |-> null, productName |-> null, productSku |-> null,
   priceSaleText |-> <<>>, priceRegularText |-> <<>>, offerPrices |-> <<>>,
   priceCandidates |-> <<>>, unitLabel |-> null]
DetFull ==
  [h1Text |-> null, ogTitle |-> "Pain blanc 675 g", productName |-> "Pain", productSku |-> "456",
   priceSaleText |-> <<"2", ",", "4", "9">>, priceRegularText |-> <<>>,
   offerPrices |-> << <<"2", ".", "4", "9">>, <<"0">> >>,
   priceCandidates |-> <<>>, unitLabel |-> "675 g"]
Details == {DetEmpty, DetFull}
DetailOutcomes == {<<>>} \cup {<<d>> : d \in Details}

\* Variant: the catch stores the item as it is.
FailedKeepsName(item) == item

EnrichFailed(item) ==
  [item EXCEPT !.name = Or(item.name, Or(item.sku, Or(item.url, "Produit Mayrand")))]

\* .filter(Boolean): null and 0 are dropped.
Truthy(prices) == SelectSeq(prices, LAMBDA p : p[1] # 0)

\* The detail pages of the model carry no unit-price text, so unit_label is
\* the label of the detail page or else of the listing.
EnrichWith(item, details) ==
  LET parsedSale == parseNumber(details.priceSaleText)
      parsedRegular == parseNumber(details.priceRegularText)
      offerPrices == Truthy(ParsedAll(details.offerPrices))
      offerSale == IF Len(offerPrices) > 0 THEN MinOf(offerPrices) ELSE <<>>
      offerRegular == IF Len(offerPrices) > 1 THEN MaxOf(offerPrices) ELSE <<>>
      priceCandidates == IF parsedSale # <<>> \/ parsedRegular # <<>>
                         THEN [sale |-> parsedSale, regular |-> parsedRegular]
                         ELSE parsePriceCandidates(details.priceCandidates)
      normalizedPrices ==
        normalizePricePair(
          [sale |-> OrElse(parsedSale, OrElse(offerSale, priceCandidates.sale)),
           regular |-> OrElse(parsedRegular, OrElse(offerRegular, priceCandidates.regular))])
      nameFallback ==
        Or(details.h1Text, Or(details.ogTitle, Or(details.productName,
          Or(item.name, Or(item.sku, Or(item.url, "Produit Mayrand"))))))
  IN  [item EXCEPT
         !.name = nameFallback,
         !.sku = Or(details.productSku, Or(item.sku, extractSkuFromUrl(item.url))),
         !.price_sale = OrElse(normalizedPrices.sale, item.price_sale),
         !.price_regular = OrElse(normalizedPrices.regular, item.price_regular),
         !.unit_label = Or(details.unitLabel, item.unit_label)]

EnrichOne(item, outcome) ==
  IF item.url = null THEN item
  ELSE IF outcome = <<>> THEN EnrichFailed(item)
  ELSE EnrichWith(item, outcome[1])

RECURSIVE EnrichAll(_, _)
EnrichAll(items, outcomes) ==
  IF items = <<>> THEN <<>>
  ELSE <<EnrichOne(Head(items), Head(outcomes))>> \o EnrichAll(Tail(items), Tail(outcomes))

(***************************************************************************)
(* enrichItemsWithDetails as a pool of DETAIL_CONCURRENCY_LIMIT workers    *)
(* over the shared index.  A worker runs without interruption from one     *)
(* await to the next; the awaits are the sleep, context.newPage(), the     *)
(* scrape of the detail page (its exceptions are caught) and page.close(). *)
(* context.newPage() is outside the try: its exception rejects the worker  *)
(* and with it Promise.all.                                                *)
(***************************************************************************)
Workers == 1..DETAIL_CONCURRENCY_LIMIT

\* What the scrape of a detail page gives in the pool: an exception or the
\* details of a product.
PoolOutcomes == {<<>>, <<DetFull>>}
IdleWorker == [pc |-> "new", current |-> nullN, page |-> 0]

\* Variant: a claim advances the index by two.
ClaimSkips(i) == i + 2

\* index += 1 after const current = index.
Claim(i) == i + 1

\* One run of the while loop of worker w from its test to its next await
\* (or to its end), on st = [index, results, workers, took]: items without
\* url are copied to their slot on the way.
RECURSIVE RunWorker(_, _, _)
RunWorker(st, w, its) ==
  IF st.index < Len(its)
  THEN LET current == st.index
           item == its[current + 1]
           took == [st.took EXCEPT ![current + 1] = @ + 1]
       IN  IF item.url = null
           THEN RunWorker([st EXCEPT !.index = Claim(current), !.took = took,
                                     !.results[current + 1] = <<item>>], w, its)
           ELSE [st EXCEPT !.index = Claim(current), !.took = took,
                           !.workers[w].pc = "sleep", !.workers[w].current = current]
  ELSE [st EXCEPT !.workers[w].pc = "done", !.workers[w].current = nullN]

\* Array.from({ length: DETAIL_CONCURRENCY_LIMIT }, () => worker()): the
\* workers are started one after the other, each running to its first await.
RECURSIVE StartFrom(_, _, _)
StartFrom(st, w, its) ==
  IF w > DETAIL_CONCURRENCY_LIMIT THEN st
  ELSE StartFrom(RunWorker(st, w, its), w + 1, its)

PoolState == [index |-> index, results |-> poolResults, workers |-> workers, took |-> gTook]

SetPool(st) ==
  /\ index' = st.index
  /\ poolResults' = st.results
  /\ workers' = st.workers
  /\ gTook' = st.took

StartWorkers ==
  /\ mpc = "enrich"
  /\ \A w \in Workers : workers[w].pc = "new"
  /\ SetPool(StartFrom([index |-> 0, results |-> [i \in 1..Len(finalItems) |-> <<>>],
                        workers |-> workers,
                        took |-> [i \in 1..Len(finalItems) |-> 0]], 1, finalItems))
  /\ UNCHANGED <<tvars, mainLocals, files, exitCode, gStart, gPublished, gWrote, gInputs,
                 gRan, gKeys, pollvars, purevars, sessions, gOutOfOrder,
                 gThrew>>

\* The sleep of a worker ends.
WorkerWakes ==
  /\ \E w \in Workers :
       /\ workers[w].pc = "sleep"
       /\ workers' = [workers EXCEPT ![w].pc = "open"]
  /\ UNCHANGED <<tvars, mainLocals, files, exitCode, gStart, gPublished, gWrote, gInputs,
                 gRan, gKeys, pollvars, purevars, index, poolResults, sessions, gTook, gOutOfOrder,
                 gThrew>>

\* Variant: context.newPage() hands out one and the same page.
SamePage(open) == 1

\* context.newPage() creates a page that did not exist: it is identified by
\* the least number no open page has.
NewPage(open) == CHOOSE n \in 1..(Cardinality(open) + 1) : n \notin open

\* context.newPage() returns a new page, or throws.
WorkerOpens ==
  /\ \E w \in Workers :
       /\ workers[w].pc = "open"
       /\ \/ /\ workers' = [workers EXCEPT ![w].pc = "rejected"]
             /\ sessions' = sessions
          \/ LET page == NewPage({se.page : se \in sessions})
             IN  /\ workers' = [workers EXCEPT ![w].pc = "scrape", ![w].page = page]
                 /\ sessions' = sessions \cup {[page |-> page, owner |-> w]}
  /\ UNCHANGED <<tvars, mainLocals, files, exitCode, gStart, gPublished, gWrote, gInputs,
                 gRan, gKeys, pollvars, purevars, index, poolResults, gTook, gOutOfOrder,
                 gThrew>>

\* Variant: results are pushed in the order the scrapes complete.
SlotInCompletionOrder(slots, current) ==
  CHOOSE i \in 1..Len(slots) : slots[i] = <<>> /\ \A j \in 1..(i - 1) : slots[j] # <<>>

\* results[current] = ...
Slot(slots, current) == current + 1

\* scrapeProductPage on the worker's page returns details or throws; either
\* way results[current] is written, and page.close() is awaited next.
WorkerScrapes ==
  /\ \E w \in Workers, outcome \in PoolOutcomes :
       /\ workers[w].pc = "scrape"
       /\ poolResults' =
            [poolResults EXCEPT ![Slot(poolResults, workers[w].current)] =
               <<EnrichOne(finalItems[workers[w].current + 1], outcome)>>]
       /\ gOutOfOrder' =
            (gOutOfOrder \/ \E j \in 1..workers[w].current : poolResults[j] = <<>>)
       /\ gThrew' = IF outcome = <<>> THEN gThrew \cup {workers[w].current + 1} ELSE gThrew
       /\ workers' = [workers EXCEPT ![w].pc = "close"]
  /\ UNCHANGED <<tvars, mainLocals, files, exitCode, gStart, gPublished, gWrote, gInputs,
                 gRan, gKeys, pollvars, purevars, index, sessions, gTook>>

\* finally { await page.close() }: the page is closed and the worker goes
\* back to the test of its loop.
WorkerCloses ==
  /\ \E w \in Workers :
       /\ workers[w].pc = "close"
       /\ sessions' = sessions \ {[page |-> workers[w].page, owner |-> w]}
       /\ SetPool(RunWorker([PoolState EXCEPT !.workers[w].page = 0], w, finalItems))
  /\ UNCHANGED <<tvars, mainLocals, files, exitCode, gStart, gPublished, gWrote, gInputs,
                 gRan, gKeys, pollvars, purevars, gOutOfOrder,
                 gThrew>>

Unwrap(slots) == [i \in 1..Len(slots) |-> slots[i][1]]

\* await Promise.all(workers): every worker has returned, or one rejected.
WorkersJoin ==
  /\ mpc = "enrich"
  /\ \/ /\ \A w \in Workers : workers[w].pc = "done"
        /\ enrichedItems' = Unwrap(poolResults)
        /\ mpc' = "guard"
        /\ exitCode' = exitCode
     \/ /\ \E w \in Workers : workers[w].pc = "rejected"
        /\ enrichedItems' = enrichedItems
        /\ mpc' = "failed"
        /\ exitCode' = 1
  /\ UNCHANGED <<tvars, runs, qi, result, queryUsed, finalItems, files, gStart,
                 gPublished, gWrote, gInputs, gRan, gKeys, xvars>>

(***************************************************************************)
(* main.  The files of OUTPUT_DIR are written without I/O errors.          *)
(***************************************************************************)
LeaveListing ==
  /\ pc' = "idle"
  /\ waitAttempt' = 0
  /\ query' = null
  /\ url' = "U1"
  /\ currentPage' = 1
  /\ maxPage' = nullN
  /\ emptyPageStreak' = 0
  /\ pageCount' = 0
  /\ stoppedReason' = null
  /\ allItems' = <<>>
  /\ uniqueItems' = {}
  /\ attempt' = 0
  /\ extracted' = <<>>
  /\ lastError' = FALSE
  /\ paginationStatus' = <<>>
  /\ nav' = NoNav
  /\ visited' = <<>>
  /\ visitedUrls' = {}
  /\ gDerived' = nullN
  /\ gLast' = nullN
  /\ gEmpty' = FALSE
  /\ gTransFailed' = FALSE
  /\ gStall' = FALSE
  /\ gTrans' = <<>>

\* A new process: the browser is launched (which may fail) and the first
\* query is traversed.
StartRun ==
  /\ mpc \in {"idle", "done", "failed", "aborted"}
  /\ runs < MaxRuns
  /\ runs' = runs + 1
  /\ qi' = 1
  /\ result' = <<>>
  /\ queryUsed' = null
  /\ finalItems' = <<>>
  /\ enrichedItems' = <<>>
  /\ gStart' = files
  /\ \/ /\ mpc' = "query"
        /\ exitCode' = 0
        /\ EnterListing(queries[1])
     \/ /\ mpc' = "failed"
        /\ exitCode' = 1
        /\ UNCHANGED <<url, pc, locals, history>>
  /\ gWrote' = {}
  /\ gRan' = <<>>
  /\ UNCHANGED <<env, files, gPublished, gInputs, gKeys, xvars>>

\* The body of `for (const query of queries)` after scrapeListing returned.
\* Variant: the latest result replaces the one kept.
SelectedLatest(old, oldQuery, runResult, q) == [result |-> <<runResult>>, queryUsed |-> q]

\* Variant: queryUsed keeps the first query once it is set.
SelectedKeepsQuery(old, oldQuery, runResult, q) ==
  IF Len(runResult.items) > 0 \/ old = <<>>
  THEN [result |-> <<runResult>>, queryUsed |-> IF oldQuery # null THEN oldQuery ELSE q]
  ELSE [result |-> old, queryUsed |-> oldQuery]

Selected(old, oldQuery, runResult, q) ==
  IF Len(runResult.items) > 0 \/ old = <<>>
  THEN [result |-> <<runResult>>, queryUsed |-> q]
  ELSE [result |-> old, queryUsed |-> oldQuery]

QueryLoopEnds(runResult, i) == Len(runResult.items) > 0 \/ i = Len(queries)

QueryReturned ==
  /\ mpc = "query"
  /\ pc = "returned"
  /\ LET sel == Selected(result, queryUsed, TraversalResult, query)
     IN  /\ result' = sel.result
         /\ queryUsed' = sel.queryUsed
         /\ IF QueryLoopEnds(TraversalResult, qi)
            THEN /\ finalItems' = FinalItems(sel.result[1].items)
                 /\ mpc' = "enrich"
                 /\ qi' = qi
                 /\ LeaveListing
            ELSE /\ qi' = qi + 1
                 /\ EnterListing(queries[qi + 1])
                 /\ UNCHANGED <<mpc, finalItems>>
  /\ gRan' = Append(gRan, [query |-> query, count |-> Len(TraversalResult.items)])
  /\ UNCHANGED <<env, runs, enrichedItems, files, exitCode, gStart, gPublished,
                 gWrote, gInputs, gKeys, xvars>>

\* An exception of scrapeListing rejects main; the handler of main().catch
\* records it and sets the exit code.
QueryThrew ==
  /\ mpc = "query"
  /\ pc = "threw"
  /\ mpc' = "failed"
  /\ exitCode' = 1
  /\ LeaveListing
  /\ UNCHANGED <<env, runs, qi, result, queryUsed, finalItems, enrichedItems, files,
                 gStart, gPublished, gWrote, gInputs, gRan, gKeys, xvars>>

Enrich ==
  /\ mpc = "enrich"
  /\ \E outcomes \in [1..Len(finalItems) -> DetailOutcomes] :
       enrichedItems' = EnrichAll(finalItems, outcomes)
  /\ mpc' = "guard"
  /\ UNCHANGED <<tvars, runs, qi, result, queryUsed, finalItems, files, exitCode,
                 gStart, gPublished, gWrote, gInputs, gRan, gKeys, xvars>>

(***************************************************************************)
(* The publish guard and the writes of main.                               *)
(***************************************************************************)
\* Variants: a guard that never rejects, a guard that tolerates a history
\* of one record, and a run that writes the dataset whatever its count.
GuardNever(newCount, historicalCount) == FALSE
GuardAboveOne(newCount, historicalCount) == newCount = 0 /\ historicalCount > 1
WritesAlways(newCount) == TRUE

GuardRejects(newCount, historicalCount) == newCount = 0 /\ historicalCount > 0

WritesDataset(newCount) == newCount # 0

Publish ==
  /\ mpc = "guard"
  /\ LET historicalCount == readHistoricalCount(files)
         newCount == Len(enrichedItems)
     IN  IF GuardRejects(newCount, historicalCount)
         THEN /\ mpc' = "aborted"
              /\ exitCode' = 1
              /\ UNCHANGED <<files, gPublished, gWrote>>
         ELSE /\ mpc' = "done"
              /\ exitCode' = exitCode
              /\ files' = [meta |-> MetaWritten(result[1].pageCount, newCount),
                           data |-> IF WritesDataset(newCount)
                                    THEN DataWritten(enrichedItems) ELSE files.data,
                           csv |-> IF WritesDataset(newCount)
                                   THEN DataWritten(enrichedItems) ELSE files.csv]
              /\ gWrote' = IF WritesDataset(newCount)
                           THEN {"data.json", "data.csv", "metadata.json"}
                           ELSE {"metadata.json"}
              /\ gPublished' = (gPublished \/ newCount > 0)
  /\ UNCHANGED <<tvars, runs, qi, result, queryUsed, finalItems, enrichedItems, gStart,
                 gInputs, gRan, gKeys, xvars>>

(***************************************************************************)
(* Specifications.  Spec: consecutive runs of the script over a small      *)
(* site.  SpecLimit: one traversal of a site without end.  SpecNav: one    *)
(* traversal of a small site whose session moves between addresses.        *)
(***************************************************************************)
InitListing(e) ==
  /\ env = e
  /\ url = "U1"
  /\ query = queries[1]
  /\ currentPage = 1
  /\ maxPage = nullN
  /\ emptyPageStreak = 0
  /\ pageCount = 0
  /\ stoppedReason = null
  /\ allItems = <<>>
  /\ uniqueItems = {}
  /\ attempt = 0
  /\ extracted = <<>>
  /\ lastError = FALSE
  /\ paginationStatus = <<>>
  /\ nav = NoNav
  /\ visited = <<>>
  /\ visitedUrls = {}
  /\ gDerived = nullN
  /\ gLast = nullN
  /\ gEmpty = FALSE
  /\ gTransFailed = FALSE
  /\ gStall = FALSE
  /\ gTrans = <<>>

InitMainAt(f, at, its) ==
  /\ mpc = at
  /\ runs = 0
  /\ qi = 1
  /\ result = <<>>
  /\ queryUsed = null
  /\ finalItems = its
  /\ enrichedItems = <<>>
  /\ files = f
  /\ exitCode = 0
  /\ gStart = f
  /\ gPublished = FALSE
  /\ gWrote = {}
  /\ gInputs = <<>>
  /\ gRan = <<>>
  /\ gKeys = <<>>
  /\ gPolled = <<>>
  /\ waitReturn = <<>>
  /\ toScroll = 0
  /\ index = 0
  /\ poolResults = <<>>
  /\ workers = [w \in Workers |-> IdleWorker]
  /\ sessions = {}
  /\ gTook = <<>>
  /\ gOutOfOrder = FALSE
  /\ gThrew = {}
  /\ gArgs = <<>>
  /\ gOut = <<>>

InitMain(f) == InitMainAt(f, "idle", <<>>)

NoFiles == [meta |-> NoMeta, data |-> NoData, csv |-> NoData]

NextListing ==
  \/ WaitForResults
  \/ Attempt
  \/ ProcessPage
  \/ GoToNextPage
  \/ ClickAttempt
  \/ GoToPageDirect
  \/ Verify
  \/ Return

AnyHref == {null, "?page=next", "http://"}
ReadyDom == {state \in DomStates : ResultsReady(state) /\ state.resultsCountText}
LoadingDom == {state \in DomStates : ~state.resultsCountText /\ state.cardsCount = 0}

EnvLimit ==
  [siteMax |-> PAGE_MAX_LIMIT + 1, frags |-> {FragA}, urls |-> {"U1"},
   buttons |-> ButtonSets, links |-> {{}}, jumps |-> {1, 2}, hrefs |-> AnyHref,
   dom |-> LoadingDom]
InitLimit ==
  InitListing(EnvLimit) /\ pc = "wait" /\ waitAttempt = 1 /\ InitMain(NoFiles)
SpecLimit == InitLimit /\ [][NextListing]_vars

EnvNav ==
  [siteMax |-> MaxSitePages, frags |-> {FragA}, urls |-> {"U1", "U2"},
   buttons |-> ButtonSets, links |-> LinkSets, jumps |-> {1, 2}, hrefs |-> AnyHref,
   dom |-> ReadyDom]
InitNav ==
  InitListing(EnvNav) /\ pc = "wait" /\ waitAttempt = 1 /\ InitMain(NoFiles)
SpecNav == InitNav /\ [][NextListing]_vars

EnvRuns ==
  [siteMax |-> RunSitePages, frags |-> {FragA, FragB}, urls |-> {"U1"},
   buttons |-> {{}, 1..MaxShown}, links |-> {{}}, jumps |-> {1}, hrefs |-> {"?page=next"},
   dom |-> ReadyDom]
Init ==
  /\ InitListing(EnvRuns) /\ pc = "idle" /\ waitAttempt = 0
  /\ \E f \in InitialFiles : InitMain(f)
Next ==
  \/ StartRun
  \/ WaitForResults
  \/ Attempt
  \/ ProcessPage
  \/ GoToNextPage
  \/ ClickAttempt
  \/ GoToPageDirect
  \/ Verify
  \/ Return
  \/ QueryReturned
  \/ QueryThrew
  \/ Enrich
  \/ Publish
Spec == Init /\ [][Next]_vars

(***************************************************************************)
(* SpecQueries: runs of the script, starting without published files, over *)
(* a site of several pages that keeps one address for all of them.         *)
(***************************************************************************)
EnvQueries ==
  [siteMax |-> MaxSitePages, frags |-> {FragA}, urls |-> {"U1"},
   buttons |-> {{}, 1..MaxShown}, links |-> {{}}, jumps |-> {1}, hrefs |-> {"?page=next"},
   dom |-> ReadyDom]
InitQueries ==
  InitListing(EnvQueries) /\ pc = "idle" /\ waitAttempt = 0 /\ InitMain(NoFiles)
SpecQueries == InitQueries /\ [][Next]_vars

(***************************************************************************)
(* SpecLimitFair: SpecLimit in which every awaited operation returns or    *)
(* throws, so the traversal is never suspended forever.                    *)
(***************************************************************************)
SpecLimitFair == SpecLimit /\ WF_vars(NextListing)

(***************************************************************************)
(* SpecDedup: the aggregation on its own.  Pages of arbitrary fragments    *)
(* are normalized and aggregated as in scrapeListing, then the aggregate   *)
(* goes through the final pass of main.                                    *)
(***************************************************************************)
FeedPage ==
  /\ pc = "aggregate"
  /\ \E results \in SeqsUpTo(env.frags, MaxCards + 1) \ {<<>>} :
       /\ Len(gInputs) + Len(results) <= MaxFed
       /\ LET pageItems == PageItems(results, query)
              acc == Aggregate([keys |-> uniqueItems, all |-> allItems], pageItems)
          IN  /\ allItems' = acc.all
              /\ uniqueItems' = acc.keys
              /\ gInputs' = gInputs \o pageItems
  /\ UNCHANGED <<env, url, pc, query, currentPage, maxPage, emptyPageStreak, pageCount,
                 stoppedReason, attempt, waitAttempt, extracted, lastError,
                 paginationStatus, nav,
                 history, mainLocals, files, exitCode, gStart, gPublished, gWrote,
                 gRan, gKeys, xvars>>

FinalDedup ==
  /\ pc = "aggregate"
  /\ pc' = "final"
  /\ result' = <<TraversalResult>>
  /\ finalItems' = FinalItems(TraversalResult.items)
  /\ mpc' = "enrich"
  /\ UNCHANGED <<env, url, locals, history, runs, qi, queryUsed,
                 enrichedItems, files, exitCode, gStart, gPublished, gWrote, gInputs,
                 gRan, gKeys, xvars>>

EnvDedup ==
  [siteMax |-> 1, frags |-> Fragments, urls |-> {"U1"},
   buttons |-> {{}}, links |-> {{}}, jumps |-> {}, hrefs |-> {}, dom |-> ReadyDom]
InitDedup ==
  InitListing(EnvDedup) /\ pc = "aggregate" /\ waitAttempt = 0 /\ InitMain(NoFiles)
NextDedup ==
  \/ FeedPage
  \/ FinalDedup
SpecDedup == InitDedup /\ [][NextDedup]_vars

(***************************************************************************)
(* SpecKeys: the two key derivations on their own, applied to pairs of     *)
(* records whose sku, url, name, price_sale and unit_label are present or  *)
(* absent in every combination.                                            *)
(***************************************************************************)
KeyRecords ==
  [query : {queries[1]},
   name : {null, "Pain", "Lait"},
   sku : {null, "123"},
   price_sale : {<<>>, <<1, 0>>, <<249, 2>>},
   price_regular : {<<>>},
   unit_label : {null, "un"},
   url : {null, ORIGIN \o "/fr/nos-produits/pain-123"}]

DeriveKeys ==
  /\ pc = "keys"
  /\ pc' = "keyed"
  /\ \E r1, r2 \in KeyRecords :
       /\ gInputs' = <<r1, r2>>
       /\ gKeys' = [i \in 1..2 |->
                     [listing |-> ListingKey(gInputs'[i]),
                      main |-> uniqueKeyForItem(gInputs'[i])]]
  /\ UNCHANGED <<env, url, locals, history, mainLocals, files, exitCode, gStart,
                 gPublished, gWrote, gRan, xvars>>

InitKeys ==
  InitListing(EnvDedup) /\ pc = "keys" /\ waitAttempt = 0 /\ InitMain(NoFiles)
SpecKeys == InitKeys /\ [][DeriveKeys]_vars

(***************************************************************************)
(* SpecFlow: the records of one query run from the aggregation to the      *)
(* published files: aggregation, final pass, detail enrichment, publish.   *)
(***************************************************************************)
NextFlow ==
  \/ FeedPage
  \/ FinalDedup
  \/ Enrich
  \/ Publish
SpecFlow == InitDedup /\ [][NextFlow]_vars

(***************************************************************************)
(* SpecPool: one call of enrichItemsWithDetails on lists of up to MaxPool  *)
(* records, each with or without a url, followed by the publish guard.     *)
(***************************************************************************)
PoolSkus == <<"101", "102", "103", "104", "105", "106">>

\* The first record has neither name nor sku and the second no name.
PoolItem(k, withUrl) ==
  [query |-> queries[1], name |-> IF k <= 2 THEN null ELSE "Pain",
   sku |-> IF k = 1 THEN null ELSE PoolSkus[k],
   price_sale |-> <<>>, price_regular |-> <<399, 2>>, unit_label |-> null,
   url |-> IF withUrl THEN ORIGIN \o "/fr/nos-produits/" \o PoolSkus[k] ELSE null]

PoolInputs ==
  UNION {{[k \in 1..n |-> PoolItem(k, k \in U)] : U \in SUBSET (1..n)} : n \in 0..MaxPool}

InitPool ==
  /\ InitListing(EnvDedup) /\ pc = "final" /\ waitAttempt = 0
  /\ \E its \in PoolInputs : InitMainAt(NoFiles, "enrich", its)
NextPool ==
  \/ StartWorkers
  \/ WorkerWakes
  \/ WorkerOpens
  \/ WorkerScrapes
  \/ WorkerCloses
  \/ WorkersJoin
SpecPool == InitPool /\ [][NextPool]_vars

(***************************************************************************)
(* SpecPure: one call of a pure function of the script on arguments drawn  *)
(* from bounded sets.  gArgs names the function and holds its argument,    *)
(* gOut holds the value returned.                                          *)
(***************************************************************************)
UnitNumbers ==
  {<<"1", ",", "3", "3">>, <<"1", ".", "5">>, <<"1", "2">>, <<"0", ",", "5", "0">>}
UnitCurrencies == {<<>>, <<"$">>, <<" ", "$">>, <<" ", "$", " ">>}
UnitSeparators ==
  {<<"/">>, <<"p", "a", "r">>, <<"P", "A", "R">>, <<" ", "P", "a", "r", " ">>,
   <<"p", "e", "r">>, <<" ", "P", "E", "R", " ">>, <<>>, <<" ">>}
UnitLabels ==
  {<<"1", "0", "0", "g">>, <<" ", "k", "g">>, <<"1", "0", "0", " ", "\n", "g", " ">>, <<>>}

UnitTexts ==
  {[number |-> num, currency |-> cur, separator |-> sep, label |-> lab,
    text |-> num \o cur \o sep \o lab] :
     num \in UnitNumbers \cup {<<>>}, cur \in UnitCurrencies, sep \in UnitSeparators,
     lab \in UnitLabels}

CallParseUnitPriceText ==
  /\ pc = "call"
  /\ pc' = "called"
  /\ \E arg \in UnitTexts :
       /\ gArgs' = [fn |-> "parseUnitPriceText", arg |-> arg]
       /\ gOut' = parseUnitPriceText(arg.text)
  /\ UNCHANGED <<env, url, locals, history, mainLocals, files, exitCode, gStart,
                 gPublished, gWrote, gInputs, gRan, gKeys, pollvars, poolvars>>

CandidateTexts ==
  {<<"2", ".", "5", "0">>, <<"2", ",", "5">>, <<"3", ",", "9", "9", " ", "$">>,
   <<"1">>, <<"x">>}

CallParsePriceCandidates ==
  /\ pc = "call"
  /\ pc' = "called"
  /\ \E arg \in SeqsUpTo(CandidateTexts, MaxCandidates) :
       /\ gArgs' = [fn |-> "parsePriceCandidates", arg |-> arg]
       /\ gOut' = parsePriceCandidates(arg)
  /\ UNCHANGED <<env, url, locals, history, mainLocals, files, exitCode, gStart,
                 gPublished, gWrote, gInputs, gRan, gKeys, pollvars, poolvars>>

\* Prices as parseNumber gives them, and null.
PairPrices ==
  {<<>>, <<0, 0>>, <<1, 0>>, <<2, 0>>, <<5, 1>>, <<25, 1>>, <<249, 2>>, <<399, 2>>,
   <<10, 0>>, <<1099, 2>>}

CallNormalizePricePair ==
  /\ pc = "call"
  /\ pc' = "called"
  /\ \E arg \in [sale : PairPrices, regular : PairPrices] :
       /\ gArgs' = [fn |-> "normalizePricePair", arg |-> arg]
       /\ gOut' = normalizePricePair(arg)
  /\ UNCHANGED <<env, url, locals, history, mainLocals, files, exitCode, gStart,
                 gPublished, gWrote, gInputs, gRan, gKeys, pollvars, poolvars>>

\* The files readHistoricalCount may find: metadata.json absent, not JSON,
\* or an object whose three count fields are each a finite number or not;
\* data.json absent, not JSON, a JSON value that is no array, or an array.
HistoricalCounts == {nullN, 0, 2}
HistoricalFiles ==
  {[meta |-> m, data |-> d, csv |-> NoData] :
     m \in {NoMeta, [NoMeta EXCEPT !.kind = "invalid"]}
            \cup {[kind |-> "object", totalItems |-> a, total_items |-> b,
                   product_count |-> c, pagesScraped |-> nullN] :
                     a \in HistoricalCounts, b \in HistoricalCounts, c \in HistoricalCounts},
     d \in {NoData, [kind |-> "invalid", items |-> <<>>], [kind |-> "object", items |-> <<>>],
            DataWritten(<<>>), DataWritten(<<OldRecord>>)}}

CallReadHistoricalCount ==
  /\ pc = "call"
  /\ pc' = "called"
  /\ \E arg \in HistoricalFiles :
       /\ gArgs' = [fn |-> "readHistoricalCount", arg |-> arg]
       /\ gOut' = readHistoricalCount(arg)
  /\ UNCHANGED <<env, url, locals, history, mainLocals, files, exitCode, gStart,
                 gPublished, gWrote, gInputs, gRan, gKeys, pollvars, poolvars>>

InitPure ==
  InitListing(EnvDedup) /\ pc = "call" /\ waitAttempt = 0 /\ InitMain(NoFiles)
NextPure ==
  \/ CallParseUnitPriceText
  \/ CallParsePriceCandidates
  \/ CallNormalizePricePair
  \/ CallReadHistoricalCount
SpecPure == InitPure /\ [][NextPure]_vars

(***************************************************************************)
(* SpecPoll: one call of waitForResultsWithRetry on its own, over every    *)
(* DOM state getResultsDomState may read.  PollLoop is one iteration of    *)
(* the for loop; PollLast is the read after the loop.  The poller has no   *)
(* try/catch: an exception of page.evaluate or of page.waitForTimeout      *)
(* rejects its promise.                                                    *)
(***************************************************************************)
PollLoop ==
  /\ pc = "poll"
  /\ waitAttempt <= RESULT_WAIT_ATTEMPTS
  /\ \/ /\ pc' = "pollThrew"
        /\ UNCHANGED <<waitAttempt, pollvars>>
     \/ \E st \in env.dom :
          /\ gPolled' = Append(gPolled, st)
          /\ toScroll' = toScroll
          /\ IF ResultsReady(st)
             THEN /\ waitReturn' = <<st>>
                  /\ pc' = "polled"
                  /\ waitAttempt' = waitAttempt
             ELSE /\ waitReturn' = waitReturn
                  /\ pc' = "poll"
                  /\ waitAttempt' = NextPoll(waitAttempt)
  /\ UNCHANGED <<env, url, query, currentPage, maxPage, emptyPageStreak, pageCount,
                 stoppedReason, allItems, uniqueItems, attempt, extracted, lastError,
                 paginationStatus, nav, history, mainLocals, files, exitCode, gStart,
                 gPublished, gWrote, gInputs, gRan, gKeys,
                 poolvars, purevars>>

PollLast ==
  /\ pc = "poll"
  /\ waitAttempt > RESULT_WAIT_ATTEMPTS
  /\ \/ /\ pc' = "pollThrew"
        /\ UNCHANGED pollvars
     \/ \E st \in env.dom :
          /\ gPolled' = Append(gPolled, st)
          /\ toScroll' = toScroll
          /\ waitReturn' = <<st>>
          /\ pc' = "polled"
  /\ UNCHANGED <<env, url, locals, history, mainLocals, files, exitCode, gStart,
                 gPublished, gWrote, gInputs, gRan, gKeys,
                 poolvars, purevars>>

EnvPoll ==
  [siteMax |-> 1, frags |-> {FragA}, urls |-> {"U1"},
   buttons |-> {{}}, links |-> {{}}, jumps |-> {1}, hrefs |-> {null},
   dom |-> DomStates]
InitPoll ==
  InitListing(EnvPoll) /\ pc = "poll" /\ waitAttempt = 1 /\ InitMain(NoFiles)
\* The retry loop of scrapeListing calls the poller again in its next
\* attempt, after the poller or the extraction that follows it threw.
PollAgain ==
  /\ pc \in {"polled", "pollThrew"}
  /\ NextAttempt(attempt) <= PAGE_RETRY_COUNT
  /\ attempt' = NextAttempt(attempt)
  /\ pc' = "poll"
  /\ waitAttempt' = 1
  /\ gPolled' = <<>>
  /\ waitReturn' = <<>>
  /\ toScroll' = 0
  /\ UNCHANGED <<env, url, query, currentPage, maxPage, emptyPageStreak, pageCount,
                 stoppedReason, allItems, uniqueItems, extracted, lastError,
                 paginationStatus, nav, history, mainLocals, files, exitCode, gStart,
                 gPublished, gWrote, gInputs, gRan, gKeys,
                 poolvars, purevars>>

NextPollStep ==
  \/ PollLoop
  \/ PollLast
  \/ PollAgain
SpecPoll == InitPoll /\ [][NextPollStep]_vars

(***************************************************************************)
(* SpecScroll: the awaits of one attempt of the retry loop up to the       *)
(* extraction: the poller, then scrollForLazyLoad.  The scroll runs in the *)
(* page, without a timeout: every 200 ms it scrolls by one step and stops  *)
(* once the total scrolled has reached document.body.scrollHeight, which   *)
(* the page may increase at each scroll.  Only the difference of the two   *)
(* is kept, in steps.  SpecScrollFair: every timer fires and every awaited *)
(* operation returns or throws.                                            *)
(***************************************************************************)
\* total += distance, against the height the page has after the scroll.
AfterScroll(left, growth) == left - 1 + growth

ScrollStart ==
  /\ pc = "polled"
  /\ \/ /\ pc' = "scrollThrew"
        /\ toScroll' = toScroll
     \/ /\ pc' = "scroll"
        /\ toScroll' \in 0..MaxScroll
  /\ UNCHANGED <<env, url, locals, history, mainLocals, files, exitCode, gStart,
                 gPublished, gWrote, gInputs, gRan, gKeys, gPolled, waitReturn,
                 poolvars, purevars>>

ScrollTick ==
  /\ pc = "scroll"
  /\ \/ /\ pc' = "scrollThrew"
        /\ toScroll' = toScroll
     \/ \E growth \in 0..MaxGrowth :
          /\ AfterScroll(toScroll, growth) <= MaxScroll
          /\ IF AfterScroll(toScroll, growth) <= 0
             THEN pc' = "scrolled" /\ toScroll' = 0
             ELSE pc' = "scroll" /\ toScroll' = AfterScroll(toScroll, growth)
  /\ UNCHANGED <<env, url, locals, history, mainLocals, files, exitCode, gStart,
                 gPublished, gWrote, gInputs, gRan, gKeys, gPolled, waitReturn,
                 poolvars, purevars>>

NextScroll ==
  \/ PollLoop
  \/ PollLast
  \/ ScrollStart
  \/ ScrollTick
SpecScroll == InitPoll /\ [][NextScroll]_vars
SpecScrollFair == SpecScroll /\ WF_vars(NextScroll)

(***************************************************************************)
(* Properties of the publish guard (Spec).                                 *)
(***************************************************************************)
AllFiles == {"data.json", "data.csv", "metadata.json"}

\* C1: a run whose final count is 0 while readHistoricalCount is above 0
\* fails at the guard with exit code 1 and writes none of data.json,
\* data.csv and metadata.json: the files are those the run started with.
C1_GuardAborts ==
  /\ [](mpc = "aborted" => exitCode = 1 /\ gWrote = {} /\ files = gStart)
  /\ [][(mpc = "guard" /\ Len(enrichedItems) = 0 /\ readHistoricalCount(files) > 0)
          => (mpc' = "aborted" /\ exitCode' = 1 /\ gWrote' = {} /\ files' = files)]_vars

C1_Witness ==
  /\ mpc = "aborted"
  /\ exitCode = 1
  /\ gWrote = {}
  /\ files = gStart
  /\ files.data.kind = "array"
  /\ Len(files.data.items) > 0

NonEmptyPublished(f) ==
  /\ f.data.kind = "array"
  /\ Len(f.data.items) > 0
  /\ f.meta.kind = "object"
  /\ f.meta.totalItems = Len(f.data.items)

\* C2: once a run has published a non-empty dataset, data.json stays
\* non-empty and metadata totalItems stays above 0 through every later run,
\* and every later zero-result run aborts and leaves the files as they were.
C2_NeverErased ==
  /\ [](gPublished => NonEmptyPublished(files))
  /\ [][(gPublished /\ mpc = "guard" /\ Len(enrichedItems) = 0)
          => (mpc' = "aborted" /\ exitCode' = 1 /\ files' = files)]_vars

C2_Witness ==
  /\ gPublished
  /\ runs >= 2
  /\ mpc = "aborted"
  /\ Len(enrichedItems) = 0
  /\ NonEmptyPublished(files)

\* C3: with final count 0 and historical count 0 the run succeeds and writes
\* metadata.json only, data.json and data.csv keeping their contents; with
\* a final count above 0 the run writes data.json, data.csv and
\* metadata.json.
C3_GuardPasses ==
  [][/\ (mpc = "guard" /\ Len(enrichedItems) = 0 /\ readHistoricalCount(files) = 0)
          => /\ mpc' = "done"
             /\ exitCode' = 0
             /\ gWrote' = {"metadata.json"}
             /\ files'.meta = MetaWritten(result[1].pageCount, 0)
             /\ files'.data = files.data
             /\ files'.csv = files.csv
     /\ (mpc = "guard" /\ Len(enrichedItems) > 0)
          => /\ mpc' = "done"
             /\ exitCode' = 0
             /\ gWrote' = AllFiles
             /\ files'.meta = MetaWritten(result[1].pageCount, Len(enrichedItems))
             /\ files'.data = DataWritten(enrichedItems)
             /\ files'.csv = DataWritten(enrichedItems)]_vars

\* The second run wrote the three files after the first run, which found
\* nothing and no history, had written metadata.json only.
C3_Witness ==
  /\ runs = 2
  /\ mpc = "done"
  /\ gWrote = AllFiles
  /\ gStart.meta = MetaWritten(0, 0)
  /\ gStart.data = NoData
  /\ Len(files.data.items) > 0

(***************************************************************************)
(* Properties of one traversal.                                            *)
(***************************************************************************)
Ended == pc \in {"returned", "threw"}

\* C4: whatever the rendering surface does, one traversal extracts at most
\* PAGE_MAX_LIMIT pages, and a traversal that ends because currentPage passed
\* the limit returns stoppedReason 'page-limit-reached'.
C4_PageLimit ==
  /\ pageCount <= PAGE_MAX_LIMIT
  /\ Len(visited) <= PAGE_MAX_LIMIT
  /\ (pc = "returned" /\ currentPage > PAGE_MAX_LIMIT => stoppedReason = "page-limit-reached")

C4_Witness ==
  /\ pc = "returned"
  /\ currentPage > PAGE_MAX_LIMIT
  /\ pageCount = PAGE_MAX_LIMIT
  /\ stoppedReason = "page-limit-reached"

\* C5: when every awaited operation returns or throws, scrapeListing
\* eventually returns or propagates an exception; each step of the page loop
\* leaves currentPage alone or increases it by exactly 1, never beyond
\* PAGE_MAX_LIMIT + 1, and the retry loop, the readiness poller and the click
\* loop of goToPage stay within their attempt counts.
C5_Terminates ==
  /\ <>Ended
  /\ [](/\ currentPage \in 1..(PAGE_MAX_LIMIT + 1)
        /\ attempt \in 0..(PAGE_RETRY_COUNT + 1)
        /\ waitAttempt \in 0..RESULT_WAIT_ATTEMPTS
        /\ nav.attempt \in 0..GOTO_PAGE_ATTEMPTS)
  /\ [][currentPage' \in {currentPage, currentPage + 1}]_vars

C5_Witness ==
  /\ pc = "returned"
  /\ pageCount = PAGE_MAX_LIMIT
  /\ attempt = PAGE_RETRY_COUNT
  /\ lastError

\* The maximum page every extracted page displayed, when it is one number.
DisplayedMax == IF gDerived \in 1..MaxShown THEN gDerived ELSE 0

C7_MismatchStops ==
  (pc = "returned" /\ gTrans # <<>> /\ gTrans[1] # currentPage + 1)
    => (stoppedReason = "no-next-page" /\ visited[Len(visited)] = currentPage)

\* C8 as stated: a transition that ends on an address already extracted in
\* this traversal stops it with 'pagination-stalled', and the page it reached
\* is not extracted.
C8_StallStops ==
  gStall => /\ pc \in {"exit", "returned"}
            /\ (pc = "returned" => stoppedReason = "pagination-stalled")

\* C9: every returned TraversalResult carries one of the seven terminal
\* reasons, and once stoppedReason is assigned it never changes.
C9_ReasonOnce ==
  /\ [](pc = "returned" => TraversalResult.stoppedReason \in StoppedReasons)
  /\ [][stoppedReason # null => stoppedReason' = stoppedReason]_vars

C9_Witness ==
  /\ pc = "returned"
  /\ TraversalResult.stoppedReason = "next-disabled"
  /\ pageCount > 1

(***************************************************************************)
(* Properties of the aggregation (SpecDedup).                              *)
(***************************************************************************)
KeysOf(items, Key(_)) == {Key(items[i]) : i \in 1..Len(items)}

\* out holds one record per key of inputs, each the first of inputs with its
\* key, in the order of their first occurrences.
FirstSeen(inputs, out, Key(_)) ==
  /\ \A i, j \in 1..Len(out) : i # j => Key(out[i]) # Key(out[j])
  /\ KeysOf(out, Key) = KeysOf(inputs, Key)
  /\ \A i \in 1..Len(out) :
       \E j \in 1..Len(inputs) :
         /\ inputs[j] = out[i]
         /\ \A h \in 1..(j - 1) : Key(inputs[h]) # Key(out[i])
  /\ Cardinality(KeysOf(out, Key)) <= Len(inputs)

\* C10: the aggregate of one query run holds at most one record per Identity
\* Key, the first-seen one (a key already in the map is never overwritten),
\* so its distinct keys never outnumber the input records; the final pass of
\* main keeps it so.
C10_FirstSeen ==
  /\ FirstSeen(gInputs, allItems, ListingKey)
  /\ uniqueItems = KeysOf(gInputs, ListingKey)
  /\ (pc = "final" => FirstSeen(gInputs, finalItems, uniqueKeyForItem))

\* Two records with the key "123" were aggregated and the first was kept.
C10_Witness ==
  /\ pc = "final"
  /\ Len(gInputs) = MaxFed
  /\ gInputs[1].name = "Pain blanc"
  /\ gInputs[2].name = "Pain blanc tranche"
  /\ ListingKey(gInputs[1]) = ListingKey(gInputs[2])
  /\ Len(finalItems) = 2
  /\ finalItems[1] = gInputs[1]

(***************************************************************************)
(* Properties of the published dataset (SpecFlow).                         *)
(***************************************************************************)
Published == mpc = "done" /\ "data.json" \in gWrote

\* C11 as stated: the dataset written to data.json after detail enrichment
\* holds no two records with the same Identity Key.
C11_PublishedDistinct ==
  Published =>
    \A i, j \in 1..Len(files.data.items) :
      i # j => uniqueKeyForItem(files.data.items[i]) # uniqueKeyForItem(files.data.items[j])

PriceInvariant(item) ==
  (item.price_sale # <<>> /\ item.price_regular # <<>>) => item.price_sale # item.price_regular

\* C12 as stated: every record of the published dataset, detail enrichment
\* included, has price_sale and price_regular different when both are present.
C12_PublishedPrices ==
  Published => \A i \in 1..Len(files.data.items) : PriceInvariant(files.data.items[i])

(***************************************************************************)
(* Properties of the key derivation in the aggregation (SpecDedup).        *)
(***************************************************************************)
\* A record for which no sku, no name and no address of its own could be
\* derived: its card had no link, so its url is the bare search address.
Underivable(item) ==
  item.sku = null /\ item.name = null /\ item.url = BaseUrlString(item.query)

CountOf(items, P(_)) == Cardinality({i \in 1..Len(items) : P(items[i])})

\* C13 as stated: every record without sku, url and name met during a query
\* run is appended to the output: N of them yield N output records, in the
\* aggregate and after the final pass of main.
C13_KeylessKept ==
  /\ CountOf(allItems, Underivable) = CountOf(gInputs, Underivable)
  /\ (pc = "final" => CountOf(finalItems, Underivable) = CountOf(gInputs, Underivable))

\* C14 as stated: a record without sku whose url is the url of a record seen
\* before it is dropped; the fragments A (sku "123"), B (no sku, the url of
\* A) and C (novel) aggregate to the two records A and C.
C14_UrlDuplicateDropped ==
  /\ \A i, j \in 1..Len(allItems) :
       (i < j /\ allItems[j].sku = null) => allItems[i].url # allItems[j].url
  /\ (gInputs = PageItems(<<FragA, FragB, FragD>>, query)
        => allItems = PageItems(<<FragA, FragD>>, query))

(***************************************************************************)
(* Properties of the two key derivations (SpecKeys).                       *)
(***************************************************************************)
CompositeKeyed(item) == item.sku = null /\ item.url = null /\ item.name # null

\* C15: uniqueKeyForItem and the key derivation of scrapeListing agree on
\* every record; the key is the sku when there is one, else the url when
\* there is one, else, when there is a name, a key that two records share
\* exactly when they have the same name, price_sale and unit_label, else no
\* key.
C15_KeyDerivation ==
  gKeys # <<>> =>
    /\ \A i \in 1..2 :
         LET item == gInputs[i]
             key == gKeys[i].main
         IN  /\ gKeys[i].listing = key
             /\ (item.sku # null => key = item.sku)
             /\ (item.sku = null /\ item.url # null => key = item.url)
             /\ (CompositeKeyed(item) => key # null)
             /\ (item.sku = null /\ item.url = null /\ item.name = null => key = null)
    /\ (CompositeKeyed(gInputs[1]) /\ CompositeKeyed(gInputs[2]))
         => ((gKeys[1].main = gKeys[2].main)
               <=> /\ gInputs[1].name = gInputs[2].name
                   /\ gInputs[1].price_sale = gInputs[2].price_sale
                   /\ gInputs[1].unit_label = gInputs[2].unit_label)

\* A record keyed by its url next to one keyed by the composite.
C15_Witness ==
  /\ gKeys # <<>>
  /\ gInputs[1].sku = null /\ gInputs[1].url # null
  /\ gKeys[1].listing = gInputs[1].url
  /\ CompositeKeyed(gInputs[2])
  /\ gKeys[2].main = "Pain__2.49__un"

(***************************************************************************)
(* Properties of the record addresses (SpecDedup).                         *)
(***************************************************************************)
\* The fragment a record was built from (the fragments of the model differ
\* in name, sku or unit label).
SourceOf(item) ==
  CHOOSE f \in Fragments :
    f.name = item.name /\ f.sku = item.sku /\ f.unitLabel = item.unit_label

Resolvable(link) == link \in AbsoluteLinks \cup RootRelativeLinks

AbsoluteAddress(link) == IF link \in AbsoluteLinks THEN link ELSE "https://mayrand.ca" \o link

\* The expected fallback: the search address of the query, with the sku, or
\* else the name, as its anchor when there is one.
ExpectedFallback(item) ==
  LET base == "https://mayrand.ca/fr/page-recherche?search=" \o item.query
  IN  CASE item.sku = "123" -> base \o "#123"
        [] item.sku = null /\ item.name = "Pain blanc" -> base \o "#Pain-blanc"
        [] item.sku = null /\ item.name = "Pain" -> base \o "#Pain"
        [] item.sku = null /\ item.name = "Lait 2%" -> base \o "#Lait-2%25"
        [] OTHER -> base

\* C16: the url of every record is never empty: it is the card link as an
\* absolute address when the link resolves, and otherwise the fallback built
\* from the search address of the query and the sku or the name, which
\* depends on nothing else.
C16_UrlNeverEmpty ==
  \A i \in 1..Len(gInputs) :
    LET item == gInputs[i]
        link == SourceOf(item).link
    IN  /\ item.url # null
        /\ (Resolvable(link) => item.url = AbsoluteAddress(link))
        /\ (~Resolvable(link) => item.url = ExpectedFallback(item))

\* A record with an unresolvable link and a name, and one with nothing.
C16_Witness ==
  /\ Len(gInputs) >= 2
  /\ gInputs[1].name = "Lait 2%"
  /\ gInputs[1].url = "https://mayrand.ca/fr/page-recherche?search=onsale#Lait-2%25"
  /\ gInputs[2].name = null /\ gInputs[2].sku = null
  /\ gInputs[2].url = "https://mayrand.ca/fr/page-recherche?search=onsale"

(***************************************************************************)
(* Properties of the query loop of main (Spec).                            *)
(***************************************************************************)
QueryLoopDone == mpc \in {"enrich", "guard", "done", "aborted"}

\* The result main keeps is the one of query q, with n records.
Uses(q, n) ==
  /\ queryUsed = q
  /\ result # <<>>
  /\ result[1].baseUrl = "https://mayrand.ca/fr/page-recherche?search=" \o q
  /\ Len(result[1].items) = n

\* C17: the variants are traversed in the order onsale, promo, solde, one at
\* a time; no variant is traversed after one that yielded a record; when the
\* loop is over main uses the result of the variant that yielded a record,
\* or, when all three yielded none, the result of the first.
C17_QueryFallback ==
  /\ Len(gRan) <= 3
  /\ \A i \in 1..Len(gRan) : gRan[i].query = <<"onsale", "promo", "solde">>[i]
  /\ \A i \in 1..(Len(gRan) - 1) : gRan[i].count = 0
  /\ (mpc = "query" => query = <<"onsale", "promo", "solde">>[Len(gRan) + 1])
  /\ QueryLoopDone =>
       /\ gRan # <<>>
       /\ LET last == gRan[Len(gRan)]
          IN  IF last.count > 0 THEN Uses(last.query, last.count)
              ELSE Len(gRan) = 3 /\ Uses("onsale", 0)

\* The first variant yielded nothing, the second a record: the third is not
\* traversed and the result of the second is published.
C17_Witness ==
  /\ mpc = "done"
  /\ Len(gRan) = 2
  /\ gRan[1].count = 0
  /\ gRan[2].count > 0
  /\ queryUsed = "promo"
  /\ "data.json" \in gWrote

(***************************************************************************)
(* Properties of the failure handling (Spec).                              *)
(***************************************************************************)
\* The traversal returned after a transition that did not reach its page or
\* that ended on an address already extracted.
PaginationFailed == pc = "returned" /\ (gTransFailed \/ gStall)

\* C18 as stated: a pagination failure stops the traversal with a reason of
\* its own, does not abort the run, and main goes on to the next query
\* variant whenever one remains.
C18_PaginationFailure ==
  /\ [](PaginationFailed =>
          stoppedReason \in {"no-next-page", "next-disabled", "pagination-stalled"})
  /\ [][(mpc = "query" /\ PaginationFailed)
          => /\ mpc' # "failed"
             /\ (qi < Len(queries) => (mpc' = "query" /\ qi' = qi + 1))]_vars

\* The positions of scrapeListing in which the script awaits an operation of
\* the rendering surface: the readiness poller and the extraction of an
\* attempt, and the navigation, click and selector waits of a transition.
SurfaceOperation == pc \in {"wait", "attempt", "paginate", "fallback", "click"}

\* C19 as stated: an exception of a single operation of the rendering
\* surface, in an attempt or in a pagination transition, never escapes
\* scrapeListing: it is a failed attempt of the page.
C19_TimeoutIsFailedAttempt == [][SurfaceOperation => pc' # "threw"]_vars

\* C20 as stated: a failure while writing a debug artifact after the retry
\* loop is swallowed: it never escapes scrapeListing.
C20_DebugWriteSwallowed == [][pc = "process" => pc' # "threw"]_vars

(***************************************************************************)
(* Properties of the readiness poller (SpecPoll).                          *)
(***************************************************************************)
\* C21 as stated: whatever the rendering surface does, DOM reads that fail
\* included, waitForResultsWithRetry never throws.
C21_PollerNeverThrows == pc # "pollThrew"

\* The three signs of a results area that has finished loading.
DeclaredReady(st) == st.resultsCountText \/ st.cardsCount > 0 \/ ~st.loaderVisible

\* C22: the poller returns the first state it reads that shows a results
\* count, a card or no loader, and reads nothing after it; while the states
\* read show none of the three and attempts remain it polls again, one read
\* per attempt; once the attempts are used up it returns the state of one
\* last read.
C22_StopsEarly ==
  /\ \A i \in 1..(Len(gPolled) - 1) : ~DeclaredReady(gPolled[i])
  /\ Len(gPolled) <= RESULT_WAIT_ATTEMPTS + 1
  /\ (pc = "poll" => /\ waitReturn = <<>>
                     /\ Len(gPolled) = waitAttempt - 1
                     /\ (gPolled # <<>> => ~DeclaredReady(gPolled[Len(gPolled)])))
  /\ (pc = "polled" => /\ waitReturn = <<gPolled[Len(gPolled)]>>
                       /\ (DeclaredReady(waitReturn[1])
                             \/ Len(gPolled) = RESULT_WAIT_ATTEMPTS + 1))

\* The poller returned at its third read, the first that shows cards, under
\* a visible loader.
C22_Witness ==
  /\ pc = "polled"
  /\ Len(gPolled) = 3
  /\ waitReturn[1].cardsCount > 0
  /\ waitReturn[1].loaderVisible
  /\ ~waitReturn[1].resultsCountText

(***************************************************************************)
(* Properties of the detail enrichment (SpecPool).                         *)
(***************************************************************************)
\* r is what the enrichment makes of item: the record of the same listing
\* (same query, same url), completed by some outcome of its detail page.
IsEnrichmentOf(r, item) ==
  /\ r.url = item.url
  /\ r.query = item.query
  /\ r \in {EnrichOne(item, outcome) : outcome \in PoolOutcomes}

AllReturned == \A w \in Workers : workers[w].pc = "done"

\* C23: whatever the order in which the detail scrapes complete, a slot of
\* results that is written holds the enrichment of the item at the same
\* position, and the array returned has the length of the input with every
\* slot i holding the enrichment of items[i].
C23_OrderPreserved ==
  /\ Len(poolResults) \in {0, Len(finalItems)}
  /\ \A i \in 1..Len(poolResults) :
       poolResults[i] # <<>> => IsEnrichmentOf(poolResults[i][1], finalItems[i])
  /\ (mpc = "guard" =>
        /\ Len(enrichedItems) = Len(finalItems)
        /\ \A i \in 1..Len(finalItems) : IsEnrichmentOf(enrichedItems[i], finalItems[i]))

\* Five records with a url were enriched and returned, and some scrape
\* completed before the scrape of an earlier record.
C23_Witness ==
  /\ mpc = "guard"
  /\ Len(enrichedItems) = MaxPool
  /\ \A i \in 1..MaxPool : finalItems[i].url # null
  /\ gOutOfOrder
  /\ enrichedItems[1] = EnrichFailed(finalItems[1])
  /\ enrichedItems[MaxPool] # EnrichFailed(finalItems[MaxPool])

\* C24: under every interleaving the indexes below the shared index have
\* been taken exactly once and the others not at all, no two workers hold
\* the same index, and when all workers have returned every index was
\* taken and every slot of results is written.
C24_DisjointSlices ==
  /\ index <= Len(finalItems)
  /\ \A i \in 1..Len(gTook) : gTook[i] = IF i <= index THEN 1 ELSE 0
  /\ \A w1, w2 \in Workers :
       (w1 # w2 /\ workers[w1].current # nullN)
         => workers[w1].current # workers[w2].current
  /\ ((AllReturned /\ mpc = "enrich") =>
        /\ index = Len(finalItems)
        /\ Len(gTook) = Len(finalItems)
        /\ \A i \in 1..Len(finalItems) : gTook[i] = 1 /\ poolResults[i] # <<>>)

\* The four workers have all returned from a list of five records with a
\* url, so that one of them took two.
C24_Witness ==
  /\ AllReturned
  /\ mpc = "enrich"
  /\ Len(finalItems) = MaxPool
  /\ \A i \in 1..MaxPool : finalItems[i].url # null /\ poolResults[i] # <<>>

PagesOf(w) == {se \in sessions : se.owner = w}

UnitCall == pc = "called" /\ gArgs.fn = "parseUnitPriceText"

\* The value of a number text read with the comma as decimal separator.
UnitValue(num) ==
  CASE num = <<"1", ",", "3", "3">> -> <<133, 2>>
    [] num = <<"1", ".", "5">> -> <<15, 1>>
    [] num = <<"1", "2">> -> <<12, 0>>
    [] num = <<"0", ",", "5", "0">> -> <<5, 1>>

\* A label without its leading and trailing blanks, its inner runs of
\* blanks being single spaces.
UnitLabelOf(lab) ==
  CASE lab = <<"1", "0", "0", "g">> -> <<"1", "0", "0", "g">>
    [] lab = <<" ", "k", "g">> -> <<"k", "g">>
    [] lab = <<"1", "0", "0", " ", "\n", "g", " ">> -> <<"1", "0", "0", " ", "g">>

Slash == {<<"/">>}
WordPer == {<<"p", "e", "r">>, <<" ", "P", "E", "R", " ">>}
WordPar == {<<"p", "a", "r">>, <<"P", "A", "R">>, <<" ", "P", "a", "r", " ">>}

\* arg is <number><optional currency><separator><label> for a separator of seps.
HasForm(arg, seps) == arg.number # <<>> /\ arg.separator \in seps /\ arg.label # <<>>

Parsed(arg) == [unitPrice |-> UnitValue(arg.number), unitLabel |-> UnitLabelOf(arg.label)]

CandidatesCall == pc = "called" /\ gArgs.fn = "parsePriceCandidates"

\* The value a candidate text shows, <<>> when it shows none.
CandidateValue(text) ==
  CASE text = <<"2", ".", "5", "0">> -> <<25, 1>>
    [] text = <<"2", ",", "5">> -> <<25, 1>>
    [] text = <<"3", ",", "9", "9", " ", "$">> -> <<399, 2>>
    [] text = <<"1">> -> <<1, 0>>
    [] text = <<"x">> -> <<>>

ValuesOf(texts) == {CandidateValue(texts[i]) : i \in 1..Len(texts)} \ {<<>>}

Least(values) == CHOOSE v \in values : \A u \in values : ~NumLess(u, v)
Greatest(values) == CHOOSE v \in values : \A u \in values : ~NumLess(v, u)

\* C27 as stated: sale is the least parseable value; regular is the
\* greatest when the list holds more than one distinct value and null
\* otherwise; both are null when no candidate is parseable.
C27_PriceCandidates ==
  CandidatesCall =>
    LET values == ValuesOf(gArgs.arg)
    IN  gOut = IF values = {} THEN [sale |-> <<>>, regular |-> <<>>]
               ELSE [sale |-> Least(values),
                     regular |-> IF Cardinality(values) > 1 THEN Greatest(values) ELSE <<>>]

PairCall == pc = "called" /\ gArgs.fn = "normalizePricePair"

\* C28: normalizePricePair gives (null, sale) when regular is null and sale
\* is not, (null, regular) when both are present and equal, and the pair
\* itself otherwise; so it never gives two equal prices.
C28_NormalizedPair ==
  PairCall =>
    LET sale == gArgs.arg.sale
        regular == gArgs.arg.regular
    IN  /\ gOut = IF regular = <<>> /\ sale # <<>> THEN [sale |-> <<>>, regular |-> sale]
                  ELSE IF sale # <<>> /\ regular # <<>> /\ sale = regular
                  THEN [sale |-> <<>>, regular |-> regular]
                  ELSE gArgs.arg
        /\ ~(gOut.sale # <<>> /\ gOut.regular # <<>> /\ gOut.sale = gOut.regular)

\* The pair (2.49, 2.49) was normalized to (null, 2.49).
C28_Witness ==
  /\ PairCall
  /\ gArgs.arg = [sale |-> <<249, 2>>, regular |-> <<249, 2>>]
  /\ gOut = [sale |-> <<>>, regular |-> <<249, 2>>]

(***************************************************************************)
(* Properties of the published fields (SpecFlow).                          *)
(***************************************************************************)
\* The card shows a current price and no struck-through price.
ShowsSinglePrice(frag) ==
  parseNumber(frag.priceSaleText) # <<>> /\ parseNumber(frag.priceRegularText) = <<>>

\* The records published for a card whose detail page gave no price: its
\* scrape threw or found nothing.
PublishedFor(frag) ==
  {EnrichOne(Normalized(frag, queries[1]), outcome) : outcome \in {<<>>, <<DetEmpty>>}}

\* C29 as stated: a product that shows a single, non-struck price is
\* published with price_sale equal to that price and price_regular null.
C29_ReadmePrices ==
  Published =>
    \A i \in 1..Len(files.data.items), frag \in Fragments :
      (ShowsSinglePrice(frag) /\ files.data.items[i] \in PublishedFor(frag))
        => /\ files.data.items[i].price_sale = parseNumber(frag.priceSaleText)
           /\ files.data.items[i].price_regular = <<>>

\* The keys of the object in metadata.json.
MetaKeys(meta) == {k \in DOMAIN meta \ {"kind"} : meta[k] # nullN}

\* C30 as stated: a metadata.json written by the run holds timestamp,
\* totalItems, pagesScraped, queryUsed and stoppedReason, totalItems being
\* the number of published records and pagesScraped the pageCount of the
\* selected traversal.
C30_MetadataFields ==
  (mpc = "done" /\ "metadata.json" \in gWrote) =>
    /\ {"timestamp", "totalItems", "pagesScraped", "queryUsed", "stoppedReason"}
          \subseteq MetaKeys(files.meta)
    /\ files.meta.totalItems = Len(enrichedItems)
    /\ files.meta.pagesScraped = result[1].pageCount

HistoricalCall == pc = "called" /\ gArgs.fn = "readHistoricalCount"

\* The finite counts of a readable metadata.json, in the order totalItems,
\* total_items, product_count.
FiniteCounts(meta) ==
  IF meta.kind # "object" THEN <<>>
  ELSE SelectSeq(<<meta.totalItems, meta.total_items, meta.product_count>>,
                 LAMBDA n : n # nullN)

\* C31: readHistoricalCount returns the first finite count of the prior
\* metadata.json; without one, the number of records of the prior
\* data.json when that is an array; otherwise 0; it returns a number
\* whatever the two files hold and whether or not they exist.
C31_HistoricalCount ==
  HistoricalCall =>
    LET counts == FiniteCounts(gArgs.arg.meta)
    IN  /\ gOut \in Nat
        /\ gOut = IF counts # <<>> THEN counts[1]
                  ELSE IF gArgs.arg.data.kind = "array" THEN Len(gArgs.arg.data.items)
                  ELSE 0

\* The metadata held no totalItems, total_items = 2 and product_count = 0,
\* beside a data.json of one record: 2 was returned.
C31_Witness ==
  /\ HistoricalCall
  /\ gArgs.arg.meta = [kind |-> "object", totalItems |-> nullN, total_items |-> 2,
                        product_count |-> 0, pagesScraped |-> nullN]
  /\ Len(gArgs.arg.data.items) = 1
  /\ gOut = 2

(***************************************************************************)
(* Properties of the awaits of an attempt (SpecScrollFair).                *)
(***************************************************************************)
\* C32 as stated: no await of an attempt blocks for ever; in particular
\* scrollForLazyLoad returns, or throws, for any page, also one whose
\* scroll height grows while it is scrolled.
C32_NoIndefiniteBlock == <>(pc \in {"scrolled", "scrollThrew", "pollThrew"})


(***************************************************************************)
(* The transition policy of one iteration (lines 1774-1786).  A step of    *)
(* the direct transition is a step from the test of line 1779 that enters  *)
(* goToPage: it throws, starts the click loop or returns a status.         *)
(***************************************************************************)
DirectAttempted ==
  /\ pc = "fallback"
  /\ pc' \in {"threw", "click"} \/ paginationStatus' # paginationStatus

NextControlAttempted ==
  /\ pc = "paginate"
  /\ pc' \in {"threw", "click"} \/ paginationStatus' # <<>>

NoNextControl == extracted # <<>> /\ extracted[1].nextPage.disabled

PageProcessed == pc = "process" /\ extracted # <<>> /\ pc' # "threw"

InRetryLoop == pc \in {"wait", "attempt"}

YieldsRecords == extracted' # <<>> /\ Len(extracted'[1].results) > 0

\* C35: a page is attempted at most PAGE_RETRY_COUNT + 1 times; the loop is
\* left before the last attempt only by an attempt that yields at least one
\* record, and such an attempt always leaves it; an attempt that throws or
\* yields no record while attempts remain is followed by the next attempt;
\* on the last attempt an extraction without records is the page's result.
C35_RetryBudget ==
  [][InRetryLoop =>
       /\ attempt \in 0..PAGE_RETRY_COUNT
       /\ pc' = "process" => ((YieldsRecords /\ attempt' = attempt) \/ attempt = PAGE_RETRY_COUNT)
       /\ (pc = "attempt" /\ YieldsRecords) => pc' = "process"
       /\ (pc = "attempt" /\ ~YieldsRecords /\ attempt < PAGE_RETRY_COUNT)
            => (pc' = "wait" /\ attempt' = attempt + 1 /\ waitAttempt' = 1)
       /\ (pc = "wait" /\ attempt' # attempt /\ attempt < PAGE_RETRY_COUNT)
            => (pc' = "wait" /\ attempt' = attempt + 1 /\ waitAttempt' = 1 /\ lastError')
       /\ (pc = "attempt" /\ attempt = PAGE_RETRY_COUNT) => pc' = "process"]_vars

C35_Witness ==
  /\ pc = "process"
  /\ attempt = PAGE_RETRY_COUNT
  /\ extracted # <<>>
  /\ Len(extracted[1].results) = 0
  /\ ~lastError

(***************************************************************************)
(* A page whose attempts all threw (lines 1625-1640): `extracted` is still *)
(* null after the retry loop.                                              *)
(***************************************************************************)
PageFailed == extracted = <<>> /\ lastError /\ attempt = PAGE_RETRY_COUNT + 1

C37_CompletedMeansFailedPage ==
  pc = "returned" =>
    /\ TraversalResult.stoppedReason = "completed" <=> PageFailed
    /\ PageFailed =>
         /\ TraversalResult.pageCount = currentPage - 1
         /\ visited = [p \in 1..(currentPage - 1) |-> p]

C37_Witness ==
  /\ pc = "returned"
  /\ TraversalResult.stoppedReason = "completed"
  /\ currentPage = 3
  /\ TraversalResult.pageCount = 2

(***************************************************************************)
(* The keys scrapeListing uses (lines 1706-1727), seen from outside: the   *)
(* keys of the map uniqueItems and the records of allItems.                *)
(***************************************************************************)
SkuOrUrl(item) == IF item.sku # null THEN item.sku ELSE item.url

NoSkuNoLink(item) == item.sku = null /\ ~Resolvable(SourceOf(item).link)

\* C38: every record fed to the aggregation has a non-empty key that is its
\* sku or its url; the keys of the map are such keys only (no composite key)
\* and every output record is in the map under its own key, once (no keyless
\* append); two output records never both lack sku and link and share a name
\* (or both lack a name), whatever their prices.
C38_KeyIsSkuOrUrl ==
  /\ \A i \in 1..Len(gInputs) :
       /\ SkuOrUrl(gInputs[i]) # null
       /\ SkuOrUrl(gInputs[i]) \in uniqueItems
  /\ uniqueItems = {SkuOrUrl(allItems[i]) : i \in 1..Len(allItems)}
  /\ Cardinality(uniqueItems) = Len(allItems)
  /\ \A i, j \in 1..Len(allItems) :
       (/\ NoSkuNoLink(allItems[i]) /\ NoSkuNoLink(allItems[j])
        /\ allItems[i].name = allItems[j].name) => i = j

\* Two cards of one name at different prices and a nameless card were fed:
\* one record of the name and the nameless record are kept.
C38_Witness ==
  /\ gInputs = PageItems(<<FragD, FragD2, FragE>>, query)
  /\ allItems = PageItems(<<FragD, FragE>>, query)
  /\ gInputs[1].price_sale # gInputs[2].price_sale

(***************************************************************************)
(* A detail scrape that throws (the catch of lines 989-997).               *)
(***************************************************************************)
NameAfterFailure(item) ==
  IF item.name # null THEN item.name
  ELSE IF item.sku # null THEN item.sku
  ELSE IF item.url # null THEN item.url
  ELSE "Produit Mayrand"

SameButName(r, item) ==
  /\ DOMAIN r = DOMAIN item
  /\ \A f \in DOMAIN item \ {"name"} : r[f] = item[f]

PublishedNow == mpc = "done" /\ "data.json" \in gWrote

=============================================================================
